---- MODULE Spec2Model ----
(***************************************************************************)
(* Model of the filter gate and graduation system of super-pancake:        *)
(*   src/src/filters/critical_filters.py  (7-rule critical filter gate)    *)
(*   src/src/filters/graduation.py        (5-pass graduation, caching)     *)
(*   src/src/discovery/goplus.py          (GoPlus response parser)         *)
(*   src/run_datafetch_and_filtration.py  (hourly orchestration loop)      *)
(*                                                                         *)
(* Units.  Percentages (taxes, LP-locked %, thresholds on them) and the    *)
(* concentration score are integers in hundredths (10.00% is 1000), which  *)
(* is the resolution round(x, 2) leaves them with.  Liquidity is in         *)
(* thousands of US dollars ($20,000 is 20), so that the products of the    *)
(* score formulas stay within TLC's 32-bit integers.  Raw GoPlus fractions *)
(* ("0.05") are in units of 10^-5.  Time is in whole hours.                *)
(***************************************************************************)
EXTENDS Integers, Sequences, FiniteSets, TLC

VARIABLES
    thresholds,      \* FILTER_* module constants of critical_filters.py
    pc,              \* position of the gate harness: idle / fetched / done
    raw,             \* raw GoPlus token record handed to _parse_security_data
    source,          \* where security_data came from: none / goplus / stored
    security_data,   \* goplus_data argument of apply_critical_filters
    pairs,           \* pairs argument of apply_critical_filters
    filter_result,   \* what apply_critical_filters returned (or that it raised)
    token,           \* discovered_tokens row: graduated, consecutive_passes, last_goplus_check
    hour,            \* UTC hour of the last cycle run (0..23)
    cached,          \* GoPlus fields of the token's latest stored snapshot
    cycle,           \* what the last cycle of the loop did for the token
    current_status,  \* graduation record fed to update_graduation_status
    call,            \* the last direct call of a graduation function and its result
    hist,            \* history of the filter statuses and fetches seen so far
    analysis         \* the last direct call of a LiquidityAnalyzer method and its result

filterVars == <<thresholds, pc, raw, source, security_data, pairs, filter_result>>
loopVars == <<token, hour, cached, cycle>>
gradVars == <<current_status, call>>
vars == <<thresholds, pc, raw, source, security_data, pairs, filter_result,
          token, hour, cached, cycle, current_status, call, hist, analysis>>

(***************************************************************************)
(* Python values.  A dict field is absent (key not in the dict), None, a   *)
(* bool or a number; every value is a record of the same shape.            *)
(***************************************************************************)
AbsentV == [t |-> "absent", v |-> 0]
NoneV == [t |-> "none", v |-> 0]
BoolV(b) == [t |-> "bool", v |-> IF b THEN 1 ELSE 0]
NumV(n) == [t |-> "num", v |-> n]
StrV(n) == [t |-> "str", v |-> n]

\* d.get(k): None when the key is absent
Get(d, k) == IF d[k] = AbsentV THEN NoneV ELSE d[k]

\* d.get(k, default)
GetDefault(d, k, default) == IF d[k] = AbsentV THEN default ELSE d[k]

\* Python truthiness of a value
Truthy(x) == x.t \notin {"absent", "none"} /\ x.v # 0

\* n / d rounded to the nearest integer, ties to even (Python's round), d > 0
RoundDiv(n, d) ==
    LET q == n \div d
        r == n % d
    IN  IF 2 * r < d THEN q
        ELSE IF 2 * r > d THEN q + 1
        ELSE IF q % 2 = 0 THEN q ELSE q + 1

SecurityKeys == {"is_honeypot", "buy_tax", "sell_tax", "lp_locked_percent", "is_mintable"}

\* the empty dict: `security_data or {}` when the fetch returned None
EmptyDict == [k \in SecurityKeys |-> AbsentV]

(***************************************************************************)
(* Threshold configuration (critical_filters.py:50-56).  The seven FILTER_ *)
(* constants are read once from the environment when the module is         *)
(* imported; the defaults are the values in the source.                    *)
(***************************************************************************)
FILTER_MIN_LP_LOCKED == 3000
FILTER_MIN_CONCENTRATION == 5000
FILTER_MIN_LIQUIDITY_USD == 20
FILTER_MAX_BUY_TAX == 1000
FILTER_MAX_SELL_TAX == 1000

DefaultThresholds ==
    [allow_honeypot |-> FALSE,
     min_lp_locked |-> FILTER_MIN_LP_LOCKED,
     min_concentration |-> FILTER_MIN_CONCENTRATION,
     min_liquidity_usd |-> FILTER_MIN_LIQUIDITY_USD,
     max_buy_tax |-> FILTER_MAX_BUY_TAX,
     max_sell_tax |-> FILTER_MAX_SELL_TAX,
     allow_mintable |-> FALSE]

\* an environment that overrides the defaults (.env)
EnvThresholds ==
    { [allow_honeypot |-> TRUE, min_lp_locked |-> 2999, min_concentration |-> 6001,
       min_liquidity_usd |-> 19, max_buy_tax |-> 1001, max_sell_tax |-> 500,
       allow_mintable |-> TRUE] }

ThresholdConfigs == {DefaultThresholds} \cup EnvThresholds

(***************************************************************************)
(* calculate_concentration_score (critical_filters.py:69-125)              *)
(***************************************************************************)
\* p.get('liquidity', {}).get('usd', 0)
PairUsd(p) == IF p.liquidity = AbsentV THEN 0 ELSE p.liquidity.v

RECURSIVE SumUsd(_)
SumUsd(prs) == IF prs = <<>> THEN 0 ELSE PairUsd(Head(prs)) + SumUsd(Tail(prs))

\* liquidity of sorted(pairs, key=usd, reverse=True)[0], which is also the
\* liquidity of max(pairs, key=usd): the largest usd of the list
MainPairLiquidity(prs) ==
    CHOOSE m \in {PairUsd(prs[i]) : i \in 1..Len(prs)} :
        \A i \in 1..Len(prs) : PairUsd(prs[i]) <= m

\* round(base + ratio * slope, 2) in hundredths, ratio = main / total
\* (the exact quotient is rounded; the source rounds the float product)
TierScore(base, slope, main, total) ==
    100 * base + RoundDiv(100 * slope * main, total)

\* calculate_concentration_score taking pairs[0] for the main pair (no sort)
calculate_concentration_score_first(prs) ==
    IF prs = <<>> THEN 0
    ELSE
        LET total_liquidity == SumUsd(prs)
            main_pair_liquidity == PairUsd(prs[1])
            RatioGe(n) == IF total_liquidity > 0
                          THEN 10 * main_pair_liquidity >= n * total_liquidity
                          ELSE 0 >= n
            RatioGe100(n) == IF total_liquidity > 0
                             THEN 100 * main_pair_liquidity >= n * total_liquidity
                             ELSE 0 >= n
            Score(base, slope) ==
                IF total_liquidity > 0
                THEN TierScore(base, slope, main_pair_liquidity, total_liquidity)
                ELSE 100 * base
        IN  IF total_liquidity > 10000
            THEN IF RatioGe(3) /\ main_pair_liquidity > 5000 THEN Score(80, 20)
                 ELSE IF RatioGe(2) THEN Score(50, 30)
                 ELSE Score(0, 50)
            ELSE IF total_liquidity >= 500
            THEN IF RatioGe100(75) THEN Score(85, 15)
                 ELSE IF RatioGe(6) THEN Score(60, 25)
                 ELSE Score(0, 60)
            ELSE IF RatioGe(9) THEN Score(40, 20)
                 ELSE Score(0, 40)

calculate_concentration_score(prs) ==
    IF prs = <<>> THEN 0
    ELSE
        LET total_liquidity == SumUsd(prs)
            main_pair_liquidity == MainPairLiquidity(prs)
            \* ratio >= n/10, the ratio being 0 when total_liquidity <= 0
            RatioGe(n) == IF total_liquidity > 0
                          THEN 10 * main_pair_liquidity >= n * total_liquidity
                          ELSE 0 >= n
            RatioGe100(n) == IF total_liquidity > 0
                             THEN 100 * main_pair_liquidity >= n * total_liquidity
                             ELSE 0 >= n
            Score(base, slope) ==
                IF total_liquidity > 0
                THEN TierScore(base, slope, main_pair_liquidity, total_liquidity)
                ELSE 100 * base
        IN  IF total_liquidity > 10000
            THEN IF RatioGe(3) /\ main_pair_liquidity > 5000 THEN Score(80, 20)
                 ELSE IF RatioGe(2) THEN Score(50, 30)
                 ELSE Score(0, 50)
            ELSE IF total_liquidity >= 500
            THEN IF RatioGe100(75) THEN Score(85, 15)
                 ELSE IF RatioGe(6) THEN Score(60, 25)
                 ELSE Score(0, 60)
            ELSE IF RatioGe(9) THEN Score(40, 20)
                 ELSE Score(0, 40)

(***************************************************************************)
(* apply_critical_filters (critical_filters.py:128-266)                    *)
(***************************************************************************)
\* f'{x:.1f}' of a value in hundredths: the value in tenths
Fmt1(x) == RoundDiv(x, 10)

Reason(rule, arg) == [rule |-> rule, arg |-> arg]

\* goplus_valid validating the taxes only (is_honeypot left out)
goplus_valid_taxes_only(goplus_data) ==
    /\ goplus_data # EmptyDict
    /\ Get(goplus_data, "buy_tax") # NoneV
    /\ Get(goplus_data, "sell_tax") # NoneV

\* `goplus_data and ...` : an empty dict is falsy
goplus_valid(goplus_data) ==
    /\ goplus_data # EmptyDict
    /\ Get(goplus_data, "buy_tax") # NoneV
    /\ Get(goplus_data, "sell_tax") # NoneV
    /\ Get(goplus_data, "is_honeypot") # NoneV

\* liquidity_usd of the gate: 0.0 without pairs, else that of max(pairs, key=usd)
GateLiquidity(prs) == IF prs = <<>> THEN 0 ELSE MainPairLiquidity(prs)

Details(hp, lp, conc, liq, bt, st, mi) ==
    [is_honeypot |-> hp, lp_locked_percent |-> lp, concentration_score |-> conc,
     liquidity_usd |-> liq, buy_tax |-> bt, sell_tax |-> st, is_mintable |-> mi]

\* lines 170-192: the early return
PendingResult(prs) ==
    [status |-> "PENDING",
     reasons |-> <<Reason("goplus_data_missing_or_invalid", 0)>>,
     details |-> Details(NoneV, NumV(0), NumV(calculate_concentration_score(prs)),
                         NumV(GateLiquidity(prs)), NoneV, NoneV, NoneV)]

\* float(None) at line 203 raises TypeError: the call returns nothing
RaisedTypeError ==
    [status |-> "TypeError", reasons |-> <<>>,
     details |-> Details(NoneV, NoneV, NoneV, NoneV, NoneV, NoneV, NoneV)]

\* the reason a rule appends when violated, none otherwise
ReasonIf(violated, rule, arg) == IF violated THEN <<Reason(rule, arg)>> ELSE <<>>

\* the seven rules with the buy-tax rule turned round: a tax below the
\* maximum is the violation
EvaluateRules_min_buy_tax(T, is_honeypot, lp_locked_percent, concentration_score, liquidity_usd, buy_tax, sell_tax, is_mintable) ==
    ReasonIf(~T.allow_honeypot /\ Truthy(is_honeypot), "honeypot_detected", 0)
    \o ReasonIf(lp_locked_percent < T.min_lp_locked,
                "lp_locked_too_low", Fmt1(lp_locked_percent))
    \o ReasonIf(concentration_score < T.min_concentration,
                "concentration_too_low", Fmt1(concentration_score))
    \o ReasonIf(liquidity_usd < T.min_liquidity_usd,
                "liquidity_too_low", liquidity_usd)
    \o ReasonIf(buy_tax < T.max_buy_tax, "buy_tax_too_high", Fmt1(buy_tax))
    \o ReasonIf(sell_tax > T.max_sell_tax, "sell_tax_too_high", Fmt1(sell_tax))
    \o ReasonIf(~T.allow_mintable /\ Truthy(is_mintable), "token_is_mintable", 0)

\* lines 214-241: the seven rules, in order
EvaluateRules(T, is_honeypot, lp_locked_percent, concentration_score, liquidity_usd, buy_tax, sell_tax, is_mintable) ==
    ReasonIf(~T.allow_honeypot /\ Truthy(is_honeypot), "honeypot_detected", 0)
    \o ReasonIf(lp_locked_percent < T.min_lp_locked,
                "lp_locked_too_low", Fmt1(lp_locked_percent))
    \o ReasonIf(concentration_score < T.min_concentration,
                "concentration_too_low", Fmt1(concentration_score))
    \o ReasonIf(liquidity_usd < T.min_liquidity_usd,
                "liquidity_too_low", liquidity_usd)
    \o ReasonIf(buy_tax > T.max_buy_tax, "buy_tax_too_high", Fmt1(buy_tax))
    \o ReasonIf(sell_tax > T.max_sell_tax, "sell_tax_too_high", Fmt1(sell_tax))
    \o ReasonIf(~T.allow_mintable /\ Truthy(is_mintable), "token_is_mintable", 0)

apply_critical_filters(T, goplus_data, prs) ==
    IF ~goplus_valid(goplus_data) THEN PendingResult(prs)
    ELSE
        LET is_honeypot == GetDefault(goplus_data, "is_honeypot", BoolV(FALSE))
            is_mintable == GetDefault(goplus_data, "is_mintable", BoolV(FALSE))
            buy_tax == GetDefault(goplus_data, "buy_tax", NumV(0))
            sell_tax == GetDefault(goplus_data, "sell_tax", NumV(0))
            lp_locked == GetDefault(goplus_data, "lp_locked_percent", NumV(0))
            concentration_score == calculate_concentration_score(prs)
            liquidity_usd == GateLiquidity(prs)
        IN  IF lp_locked.t = "none" THEN RaisedTypeError
            ELSE
                LET reasons == EvaluateRules(T, is_honeypot, lp_locked.v,
                                             concentration_score, liquidity_usd,
                                             buy_tax.v, sell_tax.v, is_mintable)
                IN  [status |-> IF Len(reasons) = 0 THEN "PASS" ELSE "FAIL",
                     reasons |-> reasons,
                     details |-> Details(is_honeypot, NumV(lp_locked.v),
                                         NumV(concentration_score), NumV(liquidity_usd),
                                         NumV(buy_tax.v), NumV(sell_tax.v), is_mintable)]


(***************************************************************************)
(* GoPlus client (goplus.py:80-279).  A raw token record holds the flags   *)
(* as the strings "0"/"1" (StrV(0), StrV(1)), the taxes as decimal strings *)
(* (StrV(n) is the fraction n * 10^-5; BadStrV is a string float() rejects,*)
(* such as ""), and lp_holders as a list of holders.  Only the fields the  *)
(* gate reads are modelled.                                                *)
(***************************************************************************)
BadStrV == [t |-> "badstr", v |-> 0]

\* raw_data.get(k) == '1'
FlagIsOne(x) == BoolV(x.t = "str" /\ x.v = 1)

\* round(float(raw_data.get(k, 0)) * 100, 2), 0.0 on ValueError/TypeError
ParseTax(x) == IF x.t = "str" THEN NumV(RoundDiv(x.v, 10)) ELSE NumV(0)

\* sum of percent * 100 over the holders marked locked or at a burn address
RECURSIVE TotalLocked(_)
TotalLocked(lp_holders) ==
    IF lp_holders = <<>> THEN 0
    ELSE (IF Head(lp_holders).is_locked = 1 \/ Head(lp_holders).burn
          THEN Head(lp_holders).percent ELSE 0) + TotalLocked(Tail(lp_holders))

\* GoPlus._calculate_lp_locked: None without holders, else round(total, 2)
calculate_lp_locked(lp_holders) ==
    IF lp_holders = <<>> THEN NoneV ELSE NumV(RoundDiv(TotalLocked(lp_holders), 10))

\* GoPlus._parse_security_data
parse_security_data(raw_data) ==
    [is_honeypot |-> FlagIsOne(raw_data.is_honeypot),
     buy_tax |-> ParseTax(raw_data.buy_tax),
     sell_tax |-> ParseTax(raw_data.sell_tax),
     lp_locked_percent |-> calculate_lp_locked(raw_data.lp_holders),
     is_mintable |-> FlagIsOne(raw_data.is_mintable)]

\* a raw record without any field: `if not token_data: return None`
EmptyRaw ==
    [is_honeypot |-> AbsentV, buy_tax |-> AbsentV, sell_tax |-> AbsentV,
     is_mintable |-> AbsentV, lp_holders |-> <<>>]

\* fetch_token_security followed by the caller's `security_data or {}`
fetch_token_security(raw_data) ==
    IF raw_data = EmptyRaw THEN EmptyDict ELSE parse_security_data(raw_data)

(***************************************************************************)
(* Inputs of the gate                                                      *)
(***************************************************************************)
MaxPairs == 2
MaxHolders == 2

\* the lists of at most n elements of S
SeqsUpTo(S, n) == UNION {[1..k -> S] : k \in 0..n}

\* pairs as DexScreener returns them: with a liquidity figure or without one
PairValues ==
    {[liquidity |-> AbsentV]} \cup
    {[liquidity |-> NumV(n)] : n \in {19, 20, 600}}

PairLists == SeqsUpTo(PairValues, MaxPairs)

FlagValues == {AbsentV, NoneV, BoolV(FALSE), BoolV(TRUE)}
TaxValues == {AbsentV, NoneV, NumV(1000), NumV(1001)}
LpValues == {AbsentV, NoneV, NumV(2999), NumV(3000)}

RawFlagValues == {AbsentV, StrV(0), StrV(1)}
RawTaxValues == {AbsentV, BadStrV, StrV(10014)}
HolderValues ==
    { [burn |-> TRUE, is_locked |-> 0, percent |-> 30004],
      [burn |-> FALSE, is_locked |-> 0, percent |-> 20000] }
HolderLists == SeqsUpTo(HolderValues, MaxHolders)

NoResult ==
    [status |-> "NONE", reasons |-> <<>>,
     details |-> Details(NoneV, NoneV, NoneV, NoneV, NoneV, NoneV, NoneV)]

(***************************************************************************)
(* The gate on its own: one security profile, one pair list, one call.     *)
(***************************************************************************)
InitFilter ==
    /\ thresholds \in ThresholdConfigs
    /\ pc = "idle"
    /\ raw = EmptyRaw
    /\ source = "none"
    /\ security_data = EmptyDict
    /\ pairs = <<>>
    /\ filter_result = NoResult

\* the security oracle answers: the record is parsed
FetchGoPlus(hp, bt, st, mi, holders) ==
    /\ pc = "idle"
    /\ raw' = [is_honeypot |-> hp, buy_tax |-> bt, sell_tax |-> st,
               is_mintable |-> mi, lp_holders |-> holders]
    /\ security_data' = fetch_token_security(raw')
    /\ source' = "goplus"
    /\ pc' = "fetched"
    /\ UNCHANGED <<thresholds, pairs, filter_result>>

\* the profile comes from elsewhere (a stored snapshot, a test): any mapping
LoadProfile(hp, bt, st, lp, mi) ==
    /\ pc = "idle"
    /\ security_data' = [is_honeypot |-> hp, buy_tax |-> bt, sell_tax |-> st,
                         lp_locked_percent |-> lp, is_mintable |-> mi]
    /\ source' = "stored"
    /\ pc' = "fetched"
    /\ UNCHANGED <<thresholds, raw, pairs, filter_result>>

GateCall(prs) ==
    /\ pc = "fetched"
    /\ pairs' = prs
    /\ filter_result' = apply_critical_filters(thresholds, security_data, prs)
    /\ pc' = "done"
    /\ UNCHANGED <<thresholds, raw, source, security_data>>

GateReturn ==
    /\ pc = "done"
    /\ pc' = "idle"
    /\ raw' = EmptyRaw
    /\ source' = "none"
    /\ security_data' = EmptyDict
    /\ pairs' = <<>>
    /\ filter_result' = NoResult
    /\ UNCHANGED thresholds

NextFilter ==
    \/ \E hp \in RawFlagValues, bt \in RawTaxValues, st \in RawTaxValues,
          mi \in RawFlagValues, holders \in HolderLists :
            FetchGoPlus(hp, bt, st, mi, holders)
    \/ \E hp \in FlagValues, bt \in TaxValues, st \in TaxValues,
          lp \in LpValues, mi \in FlagValues :
            LoadProfile(hp, bt, st, lp, mi)
    \/ \E prs \in PairLists : GateCall(prs)
    \/ GateReturn


(***************************************************************************)
(* Graduation (graduation.py).  A timestamp is kept as its age in whole    *)
(* hours at the current cycle, (datetime.now() - last_check) / 3600, and   *)
(* None as NoneV; ages stop growing at MaxElapsed.                         *)
(***************************************************************************)
PASSES_TO_GRADUATE == 5
GRADUATED_CHECK_INTERVAL_HOURS == 24
DAILY_REFRESH_HOUR == 3

MaxPasses == 7
MaxElapsed == 26

\* should_fetch_goplus with the interval test strict (> for >=)
should_fetch_goplus_strict(token_data, current_hour) ==
    IF ~token_data.graduated THEN TRUE
    ELSE IF token_data.last_goplus_check = NoneV THEN TRUE
    ELSE LET hours_since_check == token_data.last_goplus_check.v
         IN  IF hours_since_check > GRADUATED_CHECK_INTERVAL_HOURS THEN TRUE
             ELSE IF current_hour = DAILY_REFRESH_HOUR /\ hours_since_check >= 1 THEN TRUE
             ELSE FALSE

\* should_fetch_goplus (graduation.py:26-72)
should_fetch_goplus(token_data, current_hour) ==
    IF ~token_data.graduated THEN TRUE
    ELSE IF token_data.last_goplus_check = NoneV THEN TRUE
    ELSE LET hours_since_check == token_data.last_goplus_check.v
         IN  IF hours_since_check >= GRADUATED_CHECK_INTERVAL_HOURS THEN TRUE
             ELSE IF current_hour = DAILY_REFRESH_HOUR /\ hours_since_check >= 1 THEN TRUE
             ELSE FALSE

GradResult(g, c, a) == [graduated |-> g, consecutive_passes |-> c, action |-> a]

\* update_graduation_status graduating one pass late (> for >=)
update_graduation_status_late(status_in, filter_status) ==
    LET graduated == status_in.graduated
        consecutive_passes == status_in.consecutive_passes
    IN  IF filter_status = "PASS"
        THEN IF consecutive_passes + 1 > PASSES_TO_GRADUATE /\ ~graduated
             THEN GradResult(TRUE, consecutive_passes + 1, "GRADUATED")
             ELSE GradResult(graduated, consecutive_passes + 1,
                             IF ~graduated THEN "PROGRESS" ELSE "NO_CHANGE")
        ELSE IF filter_status = "FAIL"
        THEN IF consecutive_passes > 0 \/ graduated
             THEN GradResult(FALSE, 0, IF graduated THEN "DEMOTED" ELSE "PROGRESS")
             ELSE GradResult(graduated, consecutive_passes, "NO_CHANGE")
        ELSE GradResult(graduated, consecutive_passes, "NO_CHANGE")

\* update_graduation_status resetting on FAIL only when the streak is > 0
update_graduation_status_streak_only(status_in, filter_status) ==
    LET graduated == status_in.graduated
        consecutive_passes == status_in.consecutive_passes
    IN  IF filter_status = "PASS"
        THEN IF consecutive_passes + 1 >= PASSES_TO_GRADUATE /\ ~graduated
             THEN GradResult(TRUE, consecutive_passes + 1, "GRADUATED")
             ELSE GradResult(graduated, consecutive_passes + 1,
                             IF ~graduated THEN "PROGRESS" ELSE "NO_CHANGE")
        ELSE IF filter_status = "FAIL"
        THEN IF consecutive_passes > 0
             THEN GradResult(FALSE, 0, IF graduated THEN "DEMOTED" ELSE "PROGRESS")
             ELSE GradResult(graduated, consecutive_passes, "NO_CHANGE")
        ELSE GradResult(graduated, consecutive_passes, "NO_CHANGE")

\* update_graduation_status treating every status but PASS as a failure
update_graduation_status_else_fail(status_in, filter_status) ==
    LET graduated == status_in.graduated
        consecutive_passes == status_in.consecutive_passes
    IN  IF filter_status = "PASS"
        THEN IF consecutive_passes + 1 >= PASSES_TO_GRADUATE /\ ~graduated
             THEN GradResult(TRUE, consecutive_passes + 1, "GRADUATED")
             ELSE GradResult(graduated, consecutive_passes + 1,
                             IF ~graduated THEN "PROGRESS" ELSE "NO_CHANGE")
        ELSE IF consecutive_passes > 0 \/ graduated
             THEN GradResult(FALSE, 0, IF graduated THEN "DEMOTED" ELSE "PROGRESS")
             ELSE GradResult(graduated, consecutive_passes, "NO_CHANGE")

\* update_graduation_status leaving the count of a graduated token as it is
update_graduation_status_frozen(status_in, filter_status) ==
    LET graduated == status_in.graduated
        consecutive_passes == status_in.consecutive_passes
    IN  IF filter_status = "PASS"
        THEN IF graduated THEN GradResult(TRUE, consecutive_passes, "NO_CHANGE")
             ELSE IF consecutive_passes + 1 >= PASSES_TO_GRADUATE
             THEN GradResult(TRUE, consecutive_passes + 1, "GRADUATED")
             ELSE GradResult(FALSE, consecutive_passes + 1, "PROGRESS")
        ELSE IF filter_status = "FAIL"
        THEN IF consecutive_passes > 0 \/ graduated
             THEN GradResult(FALSE, 0, IF graduated THEN "DEMOTED" ELSE "PROGRESS")
             ELSE GradResult(graduated, consecutive_passes, "NO_CHANGE")
        ELSE GradResult(graduated, consecutive_passes, "NO_CHANGE")

\* update_graduation_status keeping a failed token graduated (the streak
\* alone is reset)
update_graduation_status_keep_graduated(status_in, filter_status) ==
    LET graduated == status_in.graduated
        consecutive_passes == status_in.consecutive_passes
    IN  IF filter_status = "PASS"
        THEN IF consecutive_passes + 1 >= PASSES_TO_GRADUATE /\ ~graduated
             THEN GradResult(TRUE, consecutive_passes + 1, "GRADUATED")
             ELSE GradResult(graduated, consecutive_passes + 1,
                             IF ~graduated THEN "PROGRESS" ELSE "NO_CHANGE")
        ELSE IF filter_status = "FAIL"
        THEN IF consecutive_passes > 0 \/ graduated
             THEN GradResult(graduated, 0, IF graduated THEN "DEMOTED" ELSE "PROGRESS")
             ELSE GradResult(graduated, consecutive_passes, "NO_CHANGE")
        ELSE GradResult(graduated, consecutive_passes, "NO_CHANGE")

\* update_graduation_status graduating on every pass from the fifth on
\* (without 'and not graduated')
update_graduation_status_regraduate(status_in, filter_status) ==
    LET graduated == status_in.graduated
        consecutive_passes == status_in.consecutive_passes
    IN  IF filter_status = "PASS"
        THEN IF consecutive_passes + 1 >= PASSES_TO_GRADUATE
             THEN GradResult(TRUE, consecutive_passes + 1, "GRADUATED")
             ELSE GradResult(graduated, consecutive_passes + 1,
                             IF ~graduated THEN "PROGRESS" ELSE "NO_CHANGE")
        ELSE IF filter_status = "FAIL"
        THEN IF consecutive_passes > 0 \/ graduated
             THEN GradResult(FALSE, 0, IF graduated THEN "DEMOTED" ELSE "PROGRESS")
             ELSE GradResult(graduated, consecutive_passes, "NO_CHANGE")
        ELSE GradResult(graduated, consecutive_passes, "NO_CHANGE")

\* update_graduation_status (graduation.py:75-147)
update_graduation_status(status_in, filter_status) ==
    LET graduated == status_in.graduated
        consecutive_passes == status_in.consecutive_passes
    IN  IF filter_status = "PASS"
        THEN IF consecutive_passes + 1 >= PASSES_TO_GRADUATE /\ ~graduated
             THEN GradResult(TRUE, consecutive_passes + 1, "GRADUATED")
             ELSE GradResult(graduated, consecutive_passes + 1,
                             IF ~graduated THEN "PROGRESS" ELSE "NO_CHANGE")
        ELSE IF filter_status = "FAIL"
        THEN IF consecutive_passes > 0 \/ graduated
             THEN GradResult(FALSE, 0, IF graduated THEN "DEMOTED" ELSE "PROGRESS")
             ELSE GradResult(graduated, consecutive_passes, "NO_CHANGE")
        ELSE GradResult(graduated, consecutive_passes, "NO_CHANGE")

\* the defaults of a newly discovered token
DefaultStatus == [graduated |-> FALSE, consecutive_passes |-> 0]

NoCall ==
    [kind |-> "none", graduated |-> FALSE, consecutive_passes |-> 0,
     filter_status |-> "NONE", last_goplus_check |-> NoneV, current_hour |-> 0,
     out |-> GradResult(FALSE, 0, "NONE"), fetch |-> FALSE]

\* streak: PASS statuses seen since the last FAIL (or since the default state);
\* from_default: the record descends from the default state by calls alone;
\* grad_fetch: age of the last fetch decided while graduated, the token having
\* stayed graduated since (NoneV when there is none);
\* graduations: GRADUATED actions since the last DEMOTED action (or since the
\* record was read), counted up to 2
NoHist == [streak |-> 0, from_default |-> TRUE, grad_fetch |-> NoneV, graduations |-> 0]

\* the count of GRADUATED actions after one more action
Graduations(n, action) ==
    IF action = "GRADUATED" THEN (IF n < 2 THEN n + 1 ELSE 2)
    ELSE IF action = "DEMOTED" THEN 0
    ELSE n

FilterStatuses == {"PASS", "FAIL", "PENDING", "UNKNOWN"}

(***************************************************************************)
(* The graduation functions on their own: the record returned by one call  *)
(* of update_graduation_status is the input of the next.                   *)
(***************************************************************************)
InitGraduation ==
    /\ current_status = DefaultStatus
    /\ call = NoCall
    /\ hist = NoHist

UpdateGraduation(filter_status) ==
    /\ call = NoCall
    /\ current_status.consecutive_passes < MaxPasses
    /\ LET out == update_graduation_status(current_status, filter_status)
       IN  /\ call' = [NoCall EXCEPT !.kind = "update",
                                     !.graduated = current_status.graduated,
                                     !.consecutive_passes = current_status.consecutive_passes,
                                     !.filter_status = filter_status,
                                     !.out = out]
           /\ current_status' = [graduated |-> out.graduated,
                                 consecutive_passes |-> out.consecutive_passes]
           /\ hist' = [hist EXCEPT
                           !.streak = IF filter_status = "PASS" THEN @ + 1
                                      ELSE IF filter_status = "FAIL" THEN 0 ELSE @,
                           !.from_default = @ \/ filter_status = "FAIL",
                           !.graduations = Graduations(@, out.action)]

\* a record as the table may hold it, whatever wrote it
ReadRecord(g, c) ==
    /\ call = NoCall
    /\ current_status' = [graduated |-> g, consecutive_passes |-> c]
    /\ call' = NoCall
    /\ hist' = [hist EXCEPT !.streak = 0, !.from_default = (~g /\ c = 0),
                            !.graduations = 0]

ShouldFetch(last_check, h) ==
    /\ call = NoCall
    /\ call' = [NoCall EXCEPT !.kind = "should_fetch",
                              !.graduated = current_status.graduated,
                              !.consecutive_passes = current_status.consecutive_passes,
                              !.last_goplus_check = last_check,
                              !.current_hour = h,
                              !.fetch = should_fetch_goplus(
                                  [graduated |-> current_status.graduated,
                                   last_goplus_check |-> last_check], h)]
    /\ UNCHANGED <<current_status, hist>>

\* the call has returned, the next one may start
CallReturn ==
    /\ call # NoCall
    /\ call' = NoCall
    /\ UNCHANGED <<current_status, hist>>

CheckAges == {NoneV} \cup {NumV(n) : n \in 0..MaxElapsed}

NextGraduation ==
    \/ \E fs \in FilterStatuses : UpdateGraduation(fs)
    \/ \E g \in BOOLEAN, c \in 0..(MaxPasses - 1) : ReadRecord(g, c)
    \/ \E lc \in CheckAges, h \in 0..23 : ShouldFetch(lc, h)
    \/ CallReturn


(***************************************************************************)
(* The hourly loop for one token (run_datafetch_and_filtration.py:130-253).*)
(* A cycle runs one hour after the previous one.  The persistence methods  *)
(* the loop calls (update_graduation_status, get_cached_goplus_data of the *)
(* Supabase client) write and read back the token row and the latest       *)
(* stored snapshot.                                                        *)
(***************************************************************************)
Min(a, b) == IF a <= b THEN a ELSE b

\* a timestamp one hour later
Aged(ts) == IF ts = NoneV THEN NoneV ELSE NumV(Min(ts.v + 1, MaxElapsed))

DefaultToken ==
    [graduated |-> FALSE, consecutive_passes |-> 0, last_goplus_check |-> NoneV]

NoCycle ==
    [kind |-> "none", fetched |-> FALSE, was_graduated |-> FALSE,
     before_passes |-> 0, gap |-> NoneV, status |-> "NONE", action |-> "NONE"]

\* supabase.update_graduation_status(..., last_goplus_check=datetime.now())
save_last_check(tok) == [tok EXCEPT !.last_goplus_check = NumV(0)]

\* supabase.update_graduation_status(graduated=..., consecutive_passes=...)
save_graduation(tok, out) ==
    [tok EXCEPT !.graduated = out.graduated,
                !.consecutive_passes = out.consecutive_passes]

\* supabase.get_cached_goplus_data: the GoPlus fields of the latest snapshot
get_cached_goplus_data(snapshot) == snapshot

\* what the security oracle may answer for the token
LoopResponses ==
    { EmptyRaw,
      [is_honeypot |-> StrV(0), buy_tax |-> StrV(5000), sell_tax |-> StrV(5000),
       is_mintable |-> StrV(0),
       lp_holders |-> <<[burn |-> TRUE, is_locked |-> 0, percent |-> 90000]>>],
      [is_honeypot |-> StrV(1), buy_tax |-> StrV(5000), sell_tax |-> StrV(5000),
       is_mintable |-> StrV(0),
       lp_holders |-> <<[burn |-> TRUE, is_locked |-> 0, percent |-> 90000]>>],
      [is_honeypot |-> StrV(0), buy_tax |-> StrV(5000), sell_tax |-> StrV(5000),
       is_mintable |-> StrV(0), lp_holders |-> <<>>] }

\* fetch_token_metrics returns None without pairs: the loop sees one pair or more
LoopPairLists == {<<[liquidity |-> NumV(n)]>> : n \in {19, 600}}

InitLoop ==
    /\ token = DefaultToken
    /\ hour \in 0..23
    /\ cached = EmptyDict
    /\ cycle = NoCycle

\* lines 143-148: no DexScreener data, the token is skipped this hour
CycleSkipped ==
    /\ token.consecutive_passes < MaxPasses
    /\ hour' = (hour + 1) % 24
    /\ token' = [token EXCEPT !.last_goplus_check = Aged(@)]
    /\ cycle' = [NoCycle EXCEPT !.kind = "skipped",
                                !.was_graduated = token.graduated,
                                !.before_passes = token.consecutive_passes]
    /\ hist' = [hist EXCEPT !.grad_fetch = Aged(@)]
    /\ UNCHANGED cached

\* lines 150-253: the token is processed
CycleProcessed(prs, response, store_ok) ==
    /\ token.consecutive_passes < MaxPasses
    /\ LET current_hour == (hour + 1) % 24
           tok == [token EXCEPT !.last_goplus_check = Aged(@)]
           needs_goplus_refresh == should_fetch_goplus(tok, current_hour)
           data == IF needs_goplus_refresh
                   THEN fetch_token_security(response)
                   ELSE get_cached_goplus_data(cached)
           tok1 == IF needs_goplus_refresh THEN save_last_check(tok) ELSE tok
           result == apply_critical_filters(thresholds, data, prs)
           raised == result.status = "TypeError"
           out == update_graduation_status(
                      [graduated |-> tok1.graduated,
                       consecutive_passes |-> tok1.consecutive_passes],
                      result.status)
           tok2 == IF raised THEN tok1 ELSE save_graduation(tok1, out)
           grad_fetch == needs_goplus_refresh /\ tok.graduated
       IN  /\ hour' = current_hour
           /\ token' = tok2
           /\ cached' = IF ~raised /\ store_ok THEN data ELSE cached
           /\ cycle' = [kind |-> IF raised THEN "raised" ELSE "evaluated",
                        fetched |-> needs_goplus_refresh,
                        was_graduated |-> tok.graduated,
                        before_passes |-> tok.consecutive_passes,
                        gap |-> IF grad_fetch THEN Aged(hist.grad_fetch) ELSE NoneV,
                        status |-> result.status,
                        action |-> IF raised THEN "NONE" ELSE out.action]
           /\ hist' = [streak |-> IF result.status = "PASS" THEN hist.streak + 1
                                  ELSE IF result.status = "FAIL" THEN 0
                                  ELSE hist.streak,
                       from_default |-> TRUE,
                       grad_fetch |-> IF ~tok2.graduated THEN NoneV
                                      ELSE IF grad_fetch THEN NumV(0)
                                      ELSE Aged(hist.grad_fetch),
                       graduations |-> IF raised THEN hist.graduations
                                       ELSE Graduations(hist.graduations, out.action)]

NextLoop ==
    \/ CycleSkipped
    \/ \E prs \in LoopPairLists, response \in LoopResponses, store_ok \in BOOLEAN :
           CycleProcessed(prs, response, store_ok)


(***************************************************************************)
(* LiquidityAnalyzer (src/src/analysis/liquidity.py).  Liquidity and       *)
(* volume are in thousands of US dollars, scores in hundredths, the        *)
(* concentration ratio in units of 10^-4 (round(ratio, 4)).                *)
(***************************************************************************)
\* liquidity.py:145-190: ratio, tier and score from the two liquidity sums
ConcentrationResult(total_liquidity, main_pair_liquidity, pair_count) ==
        LET \* concentration_ratio >= p / q, the ratio being 0 unless total > 0
            RatioGe(p, q) == IF total_liquidity > 0
                             THEN q * main_pair_liquidity >= p * total_liquidity
                             ELSE 0 >= p
            \* round(base + concentration_ratio * slope, 2)
            Score(base, slope) ==
                IF total_liquidity > 0
                THEN 100 * base + RoundDiv(100 * slope * main_pair_liquidity, total_liquidity)
                ELSE 100 * base
            tier == IF total_liquidity > 10000
                    THEN IF RatioGe(3, 10) /\ main_pair_liquidity > 5000
                         THEN <<"HEALTHY", Score(80, 20)>>
                         ELSE IF RatioGe(2, 10) THEN <<"CAUTION", Score(50, 30)>>
                         ELSE <<"RED_FLAG", Score(0, 50)>>
                    ELSE IF total_liquidity >= 500
                    THEN IF RatioGe(75, 100) THEN <<"HEALTHY", Score(85, 15)>>
                         ELSE IF RatioGe(6, 10) THEN <<"CAUTION", Score(60, 25)>>
                         ELSE <<"RED_FLAG", Score(0, 60)>>
                    ELSE IF RatioGe(9, 10) THEN <<"CAUTION", Score(40, 20)>>
                         ELSE <<"RED_FLAG", Score(0, 40)>>
        IN  [concentration_ratio |-> IF total_liquidity > 0
                                     THEN RoundDiv(10000 * main_pair_liquidity, total_liquidity)
                                     ELSE 0,
             concentration_score |-> tier[2],
             total_liquidity |-> total_liquidity,
             main_pair_liquidity |-> main_pair_liquidity,
             pair_count |-> pair_count,
             flag |-> tier[1]]

\* liquidity.py:122-131: the result for an empty pair list
EmptyConcentration ==
    [concentration_ratio |-> 0, concentration_score |-> 0, total_liquidity |-> 0,
     main_pair_liquidity |-> 0, pair_count |-> 0, flag |-> "RED_FLAG"]

\* calculate_liquidity_concentration taking pairs[0] for the main pair (no sort)
calculate_liquidity_concentration_unsorted(prs) ==
    IF prs = <<>> THEN EmptyConcentration
    ELSE ConcentrationResult(SumUsd(prs), PairUsd(prs[1]), Len(prs))

\* calculate_liquidity_concentration without the empty-list return:
\* sorted_pairs[0] raises IndexError
calculate_liquidity_concentration_unchecked(prs) ==
    IF prs = <<>> THEN [EmptyConcentration EXCEPT !.flag = "IndexError"]
    ELSE ConcentrationResult(SumUsd(prs), MainPairLiquidity(prs), Len(prs))

\* calculate_liquidity_concentration (liquidity.py:96-190)
calculate_liquidity_concentration(prs) ==
    IF prs = <<>> THEN EmptyConcentration
    ELSE ConcentrationResult(SumUsd(prs), MainPairLiquidity(prs), Len(prs))

\* a web3 call that raises
FailV == [t |-> "raises", v |-> 0]

\* {**known_lockers, **{addr: 'BURN' for addr in dead_addresses}}: the four
\* lockers in the order of the dict, then the two burn addresses (the order
\* of the set does not show: both are named BURN)
LockerNames == <<"UNCX Network", "PinkLock", "Team Finance", "TrustSwap", "BURN", "BURN">>

\* liquidity.py:288-301: total_locked over the first n addresses; a balanceOf
\* that raises is skipped
RECURSIVE LockedUpTo(_, _)
LockedUpTo(balances, n) ==
    IF n = 0 THEN 0
    ELSE LockedUpTo(balances, n - 1)
             + (IF balances[n].t = "num" /\ balances[n].v > 0 THEN balances[n].v ELSE 0)

\* liquidity.py:293-296: the name of the first address holding LP tokens
LockerNameOf(balances) ==
    LET holding == {i \in 1..Len(LockerNames) : balances[i].t = "num" /\ balances[i].v > 0}
    IN  IF holding = {} THEN "None"
        ELSE LockerNames[CHOOSE i \in holding : \A j \in holding : i <= j]

\* the early and error returns (liquidity.py:219-235, 270-285, 326-332)
UnlockedResult(locker_name) ==
    [is_locked |-> FALSE, locked_percentage |-> 0, locker_name |-> locker_name,
     flag |-> "UNLOCKED"]

\* liquidity.py:303-322.  locked_percentage is in hundredths of a percent;
\* the supplies of the model divide 10000, so that the quotient is exact
LockTier(total_locked, total_supply, locker_name) ==
    LET locked_percentage == (10000 * total_locked) \div total_supply
    IN  [is_locked |-> locked_percentage >= 3000,
         locked_percentage |-> locked_percentage,
         locker_name |-> locker_name,
         flag |-> IF locked_percentage >= 8000 THEN "LOCKED"
                  ELSE IF locked_percentage >= 3000 THEN "PARTIAL"
                  ELSE "UNLOCKED"]

\* verify_liquidity_lock with strict comparisons (> for >=) in the tiers
verify_liquidity_lock_strict(chain) ==
    IF chain.code # "contract" THEN UnlockedResult("None")
    ELSE IF chain.total_supply = FailV THEN UnlockedResult("UNABLE_TO_VERIFY")
    ELSE IF chain.total_supply.v = 0 THEN UnlockedResult("None")
    ELSE LET locked_percentage ==
                 (10000 * LockedUpTo(chain.balances, Len(LockerNames)))
                     \div chain.total_supply.v
         IN  [is_locked |-> locked_percentage > 3000,
              locked_percentage |-> locked_percentage,
              locker_name |-> LockerNameOf(chain.balances),
              flag |-> IF locked_percentage > 8000 THEN "LOCKED"
                       ELSE IF locked_percentage > 3000 THEN "PARTIAL"
                       ELSE "UNLOCKED"]

\* verify_liquidity_lock without the inner try: a balanceOf that raises is
\* caught by the outer handler, which returns UNLOCKED
verify_liquidity_lock_no_inner_try(chain) ==
    IF chain.code # "contract" THEN UnlockedResult("None")
    ELSE IF chain.total_supply = FailV THEN UnlockedResult("UNABLE_TO_VERIFY")
    ELSE IF chain.total_supply.v = 0 THEN UnlockedResult("None")
    ELSE IF \E i \in 1..Len(LockerNames) : chain.balances[i] = FailV
    THEN UnlockedResult("None")
    ELSE LockTier(LockedUpTo(chain.balances, Len(LockerNames)),
                  chain.total_supply.v, LockerNameOf(chain.balances))

\* verify_liquidity_lock (liquidity.py:192-332).  chain is what the node
\* answers for the LP token: get_code ("error" when the address is invalid or
\* the call raises, "not_contract" for 2 bytes or fewer), totalSupply() and
\* balanceOf() at the six addresses
verify_liquidity_lock(chain) ==
    IF chain.code # "contract" THEN UnlockedResult("None")
    ELSE IF chain.total_supply = FailV THEN UnlockedResult("UNABLE_TO_VERIFY")
    ELSE IF chain.total_supply.v = 0 THEN UnlockedResult("None")
    ELSE LockTier(LockedUpTo(chain.balances, Len(LockerNames)),
                  chain.total_supply.v, LockerNameOf(chain.balances))

\* uint256 answers of the LP token, or a call that raises
SupplyValues == {FailV, NumV(0), NumV(10), NumV(20)}
BalanceValues == {FailV, NumV(0), NumV(3), NumV(8)}
ChainStates ==
    [code : {"error", "not_contract", "contract"},
     total_supply : SupplyValues,
     balances : [1..Len(LockerNames) -> BalanceValues]]

NoChain ==
    [code |-> "error", total_supply |-> FailV,
     balances |-> [i \in 1..Len(LockerNames) |-> FailV]]

NoLock == [is_locked |-> FALSE, locked_percentage |-> 0, locker_name |-> "None", flag |-> "NONE"]

\* a DexScreener pair: liquidity.usd and volume.h24, either may be missing
Pair(usd, h24) == [liquidity |-> usd, volume |-> h24]

\* pair.get('volume', {}).get('h24', 0)
PairVolume(p) == IF p.volume = AbsentV THEN 0 ELSE p.volume.v

\* n / d <= p / q for d # 0 and q > 0
QuotientLe(n, d, p, q) == IF d > 0 THEN q * n <= p * d ELSE q * n >= p * d

\* n / d < p / q for d # 0 and q > 0
QuotientLt(n, d, p, q) == IF d > 0 THEN q * n < p * d ELSE q * n > p * d

\* round(100 * n / d) for d # 0: a ratio in hundredths, as '.2f' prints it
Hundredths(n, d) == IF d > 0 THEN RoundDiv(100 * n, d) ELSE RoundDiv(0 - 100 * n, 0 - d)

\* calculate_wash_trading_score with the healthy band closed at 5.0 only
\* (SUSPICIOUS tested with < 5.0)
calculate_wash_trading_score_open(pair) ==
    LET volume_24h == PairVolume(pair)
        liquidity == PairUsd(pair)
        Ratio(flag, likely) ==
            [volume_liquidity_ratio |-> Hundredths(volume_24h, liquidity),
             volume_24h |-> volume_24h, liquidity |-> liquidity,
             likely_wash_trading |-> likely, flag |-> flag]
    IN  IF liquidity = 0
        THEN [volume_liquidity_ratio |-> 0, volume_24h |-> volume_24h,
              liquidity |-> liquidity, likely_wash_trading |-> FALSE, flag |-> "RED_FLAG"]
        ELSE IF ~QuotientLt(volume_24h, liquidity, 1, 2)
                /\ QuotientLe(volume_24h, liquidity, 3, 1)
             THEN Ratio("HEALTHY", FALSE)
        ELSE IF QuotientLt(volume_24h, liquidity, 1, 2)
             THEN Ratio("LOW_ACTIVITY", FALSE)
        ELSE IF ~QuotientLe(volume_24h, liquidity, 3, 1)
                /\ QuotientLt(volume_24h, liquidity, 5, 1)
             THEN Ratio("SUSPICIOUS", FALSE)
        ELSE Ratio("WASH_TRADING", TRUE)

\* calculate_wash_trading_score (liquidity.py:397-453)
calculate_wash_trading_score(pair) ==
    LET volume_24h == PairVolume(pair)
        liquidity == PairUsd(pair)
        Ratio(flag, likely) ==
            [volume_liquidity_ratio |-> Hundredths(volume_24h, liquidity),
             volume_24h |-> volume_24h, liquidity |-> liquidity,
             likely_wash_trading |-> likely, flag |-> flag]
    IN  IF liquidity = 0
        THEN [volume_liquidity_ratio |-> 0, volume_24h |-> volume_24h,
              liquidity |-> liquidity, likely_wash_trading |-> FALSE, flag |-> "RED_FLAG"]
        ELSE IF ~QuotientLt(volume_24h, liquidity, 1, 2)
                /\ QuotientLe(volume_24h, liquidity, 3, 1)
             THEN Ratio("HEALTHY", FALSE)
        ELSE IF QuotientLt(volume_24h, liquidity, 1, 2)
             THEN Ratio("LOW_ACTIVITY", FALSE)
        ELSE IF ~QuotientLe(volume_24h, liquidity, 3, 1)
                /\ QuotientLe(volume_24h, liquidity, 5, 1)
             THEN Ratio("SUSPICIOUS", FALSE)
        ELSE Ratio("WASH_TRADING", TRUE)

\* flags.append(...) when cond holds
FlagIf(cond, text) == IF cond THEN <<text>> ELSE <<>>

\* estimate_trade_slippage with the bands closed above (<= 1 LOW, <= 5 MEDIUM)
estimate_trade_slippage_closed(pair, trade_size_usd) ==
    LET liquidity == PairUsd(pair)
    IN  IF liquidity = 0
        THEN [estimated_slippage_percent |-> 10000, flag |-> "HIGH"]
        ELSE [estimated_slippage_percent |-> Hundredths(trade_size_usd, 10 * liquidity),
              flag |-> IF QuotientLe(trade_size_usd, 10 * liquidity, 1, 1) THEN "LOW"
                       ELSE IF QuotientLe(trade_size_usd, 10 * liquidity, 5, 1) THEN "MEDIUM"
                       ELSE "HIGH"]

\* estimate_trade_slippage (liquidity.py:455-499).  trade_size_usd is in
\* dollars and the liquidity in thousands: the slippage percentage
\* trade / liquidity * 100 is trade_size_usd / (10 * liquidity)
estimate_trade_slippage(pair, trade_size_usd) ==
    LET liquidity == PairUsd(pair)
    IN  IF liquidity = 0
        THEN [estimated_slippage_percent |-> 10000, flag |-> "HIGH"]
        ELSE [estimated_slippage_percent |-> Hundredths(trade_size_usd, 10 * liquidity),
              flag |-> IF QuotientLt(trade_size_usd, 10 * liquidity, 1, 1) THEN "LOW"
                       ELSE IF QuotientLt(trade_size_usd, 10 * liquidity, 5, 1) THEN "MEDIUM"
                       ELSE "HIGH"]

\* check_rugpull_patterns testing < $50k before < $10k
check_rugpull_patterns_low_first(prs) ==
    LET liquidity == MainPairLiquidity(prs)
        low == prs # <<>> /\ liquidity < 50
        risk_score == IF low THEN 15 ELSE 0
    IN  [patterns_detected |-> IF low THEN <<"Low liquidity (<$50k)">> ELSE <<>>,
         risk_score |-> risk_score,
         flag |-> IF risk_score < 30 THEN "LOW_RISK"
                  ELSE IF risk_score < 60 THEN "MEDIUM_RISK"
                  ELSE "HIGH_RISK"]

\* check_rugpull_patterns with the second test an if, not an elif: below
\* $10k both penalties are added
check_rugpull_patterns_both(prs) ==
    LET liquidity == MainPairLiquidity(prs)
        very_low == prs # <<>> /\ liquidity < 10
        low == prs # <<>> /\ liquidity < 50
        risk_score == (IF very_low THEN 30 ELSE 0) + (IF low THEN 15 ELSE 0)
    IN  [patterns_detected |-> FlagIf(very_low, "Very low liquidity (<$10k)")
                               \o FlagIf(low, "Low liquidity (<$50k)"),
         risk_score |-> risk_score,
         flag |-> IF risk_score < 30 THEN "LOW_RISK"
                  ELSE IF risk_score < 60 THEN "MEDIUM_RISK"
                  ELSE "HIGH_RISK"]

\* check_rugpull_patterns (liquidity.py:501-553): only the liquidity of the
\* main pair is examined
check_rugpull_patterns(prs) ==
    LET liquidity == MainPairLiquidity(prs)
        very_low == prs # <<>> /\ liquidity < 10
        low == prs # <<>> /\ ~very_low /\ liquidity < 50
        risk_score == IF very_low THEN 30 ELSE IF low THEN 15 ELSE 0
    IN  [patterns_detected |-> IF very_low THEN <<"Very low liquidity (<$10k)">>
                               ELSE IF low THEN <<"Low liquidity (<$50k)">>
                               ELSE <<>>,
         risk_score |-> risk_score,
         flag |-> IF risk_score < 30 THEN "LOW_RISK"
                  ELSE IF risk_score < 60 THEN "MEDIUM_RISK"
                  ELSE "HIGH_RISK"]

\* analyze_lp_holders (liquidity.py:334-365): a placeholder
analyze_lp_holders == [flag |-> "UNKNOWN"]

NoConcentration ==
    [concentration_ratio |-> 0, concentration_score |-> 0, total_liquidity |-> 0,
     main_pair_liquidity |-> 0, pair_count |-> 0, flag |-> "NONE"]

NoWash ==
    [volume_liquidity_ratio |-> 0, volume_24h |-> 0, liquidity |-> 0,
     likely_wash_trading |-> FALSE, flag |-> "NONE"]
NoSlippage == [estimated_slippage_percent |-> 0, flag |-> "NONE"]
NoRugpull == [patterns_detected |-> <<>>, risk_score |-> 0, flag |-> "NONE"]

\* the result dict of comprehensive_liquidity_analysis; 'analysis': {} is the
\* six sub-results left unset
LiquidityAnalysis(status, score, recommendation, flags) ==
    [status |-> status, total_score |-> score, recommendation |-> recommendation,
     flags |-> flags, concentration |-> NoConcentration, lock |-> NoLock,
     lp_holders |-> [flag |-> "NONE"], wash_trading |-> NoWash,
     slippage |-> NoSlippage, rugpull |-> NoRugpull]

NoComposite == LiquidityAnalysis("none", 0, "NONE", <<>>)

Max(a, b) == IF a >= b THEN a ELSE b

\* liquidity.py:589-703: the analysis of the pairs once they are fetched
CompositeAnalysis(prs, chain, trade_size_usd) ==
    IF prs = <<>>
    THEN LiquidityAnalysis("returned", 0, "REJECT", <<"No trading pairs found">>)
    ELSE
        LET main_pair == CHOOSE p \in {prs[i] : i \in 1..Len(prs)} :
                             PairUsd(p) = MainPairLiquidity(prs)
            concentration == calculate_liquidity_concentration(prs)
            lock == verify_liquidity_lock(chain)
            lp_holders == analyze_lp_holders
            wash_trading == calculate_wash_trading_score(main_pair)
            slippage == estimate_trade_slippage(main_pair, trade_size_usd)
            rugpull == check_rugpull_patterns(prs)
            is_established == concentration.total_liquidity > 50000
            lock_points == IF lock.flag = "LOCKED" THEN 30
                           ELSE IF lock.flag = "PARTIAL" THEN 15
                           ELSE IF is_established THEN 10 ELSE 0
            concentration_points == IF concentration.flag = "HEALTHY" THEN 20
                                    ELSE IF concentration.flag = "CAUTION" THEN 10
                                    ELSE 0
            lp_points == IF lp_holders.flag = "HEALTHY" THEN 15
                         ELSE IF lp_holders.flag = "CAUTION" THEN 7
                         ELSE 0
            wash_points == IF wash_trading.flag = "HEALTHY" THEN 15
                           ELSE IF wash_trading.flag = "LOW_ACTIVITY" THEN 10
                           ELSE IF wash_trading.flag = "SUSPICIOUS" THEN 7
                           ELSE 0
            slippage_points == IF slippage.flag = "LOW" THEN 10
                               ELSE IF slippage.flag = "MEDIUM" THEN 5
                               ELSE 0
            raw_score == lock_points + concentration_points + lp_points + wash_points
                             + 5 + slippage_points - (rugpull.risk_score \div 2)
            score == Max(0, Min(100, raw_score))
            flags ==
                FlagIf(lock.flag = "PARTIAL", "Only {locked_percentage:.1f}% LP locked")
                \o FlagIf(lock.flag \notin {"LOCKED", "PARTIAL"} /\ is_established,
                          "No liquidity lock detected (but established token)")
                \o FlagIf(lock.flag \notin {"LOCKED", "PARTIAL"} /\ ~is_established,
                          "No liquidity lock detected")
                \o FlagIf(concentration.flag = "CAUTION",
                          "Fragmented liquidity ({concentration_ratio:.1%})")
                \o FlagIf(concentration.flag \notin {"HEALTHY", "CAUTION"},
                          "Highly fragmented liquidity")
                \o FlagIf(wash_trading.flag = "SUSPICIOUS",
                          "Suspicious volume/liquidity ratio ({volume_liquidity_ratio:.2f})")
                \o FlagIf(wash_trading.flag = "WASH_TRADING", "Likely wash trading detected")
                \o FlagIf(slippage.flag = "MEDIUM",
                          "Medium slippage ({estimated_slippage_percent:.2f}%)")
                \o FlagIf(slippage.flag \notin {"LOW", "MEDIUM"},
                          "High slippage ({estimated_slippage_percent:.2f}%)")
                \o rugpull.patterns_detected
        IN  [LiquidityAnalysis("returned", score,
                               IF score >= 80 THEN "PASS"
                               ELSE IF score >= 60 THEN "CAUTION"
                               ELSE "REJECT",
                               flags)
                EXCEPT !.concentration = concentration, !.lock = lock,
                       !.lp_holders = lp_holders, !.wash_trading = wash_trading,
                       !.slippage = slippage, !.rugpull = rugpull]

\* the methods class LiquidityAnalyzer defines; analyze_all_pairs is in the
\* file only as a commented-out block (liquidity.py:64-94)
AnalyzerMethods ==
    {"calculate_liquidity_concentration", "verify_liquidity_lock", "analyze_lp_holders",
     "detect_liquidity_migration", "calculate_wash_trading_score",
     "estimate_trade_slippage", "check_rugpull_patterns",
     "comprehensive_liquidity_analysis"}

\* comprehensive_liquidity_analysis (liquidity.py:555-703).  market is what
\* the outside holds for the token: its pairs at DexScreener and the answers
\* of the node for the main pair's LP token.  Line 587 calls
\* self.analyze_all_pairs: an attribute the object does not have raises
\* AttributeError, which the method does not catch
comprehensive_liquidity_analysis(market, trade_size_usd) ==
    IF "analyze_all_pairs" \notin AnalyzerMethods
    THEN LiquidityAnalysis("AttributeError", 0, "NONE", <<>>)
    ELSE CompositeAnalysis(market.pairs, market.chain, trade_size_usd)

\* tokens for the analysis: pairs from very low to established liquidity, with
\* no, healthy and suspicious volume
MarketUsd == {5, 40, 600, 60000}
MarketPairs == {Pair(NumV(u), NumV(k * u)) : u \in MarketUsd, k \in {0, 1, 4}}
MarketChains ==
    {NoChain} \cup
    {[code |-> "contract", total_supply |-> supply,
      balances |-> [i \in 1..Len(LockerNames) |-> IF i = 2 THEN NumV(locked) ELSE NumV(0)]]
        : supply \in {FailV, NumV(10)}, locked \in {0, 3, 8}}
Markets == [pairs : SeqsUpTo(MarketPairs, MaxPairs), chain : MarketChains]
TradeSizes == {50, 250}

\* volume and liquidity (thousands of USD) on both sides of 0.5, 3.0 and 5.0
WashVolume ==
    {AbsentV} \cup {NumV(n) : n \in {0 - 50, 0, 49, 50, 300, 301, 500, 501, 1000, 1001}}
WashLiquidity == {AbsentV} \cup {NumV(n) : n \in {0 - 100, 0, 100, 200}}
WashPairs == {Pair(u, v) : u \in WashLiquidity, v \in WashVolume}


\* liquidity (thousands of USD) on both sides of a slippage of 1% and of 5%
\* for trades of $50 and $250, with a missing, a zero and a negative one
SlippageLiquidity == {AbsentV} \cup {NumV(n) : n \in {0 - 5, 0, 1, 4, 5, 6, 24, 25, 26, 600}}
SlippagePairs == {Pair(u, AbsentV) : u \in SlippageLiquidity}

\* liquidity (thousands of USD) on both sides of $10k and of $50k
RugpullUsd == {AbsentV} \cup {NumV(n) : n \in {0 - 400, 0, 9, 10, 49, 50, 600}}
RugpullLists == SeqsUpTo({Pair(u, AbsentV) : u \in RugpullUsd}, MaxPairs)

\* sorted(pairs, key=usd, reverse=True) as the positions of the pairs in the
\* list: the sort is stable, a pair goes behind those of the same liquidity
\* that came before it
RECURSIVE InsertByLiquidity(_, _, _)
InsertByLiquidity(order, i, prs) ==
    IF order = <<>> THEN <<i>>
    ELSE IF PairUsd(prs[Head(order)]) >= PairUsd(prs[i])
         THEN <<Head(order)>> \o InsertByLiquidity(Tail(order), i, prs)
         ELSE <<i>> \o order

RECURSIVE SortedUpTo(_, _)
SortedUpTo(prs, n) ==
    IF n = 0 THEN <<>> ELSE InsertByLiquidity(SortedUpTo(prs, n - 1), n, prs)

sorted_pairs(prs) == SortedUpTo(prs, Len(prs))

\* max(pairs, key=usd) as a position: a later pair replaces the best so far
\* only when its liquidity is strictly larger
RECURSIVE MaxUpTo(_, _)
MaxUpTo(prs, n) ==
    IF n = 1 THEN 1
    ELSE LET best == MaxUpTo(prs, n - 1)
         IN  IF PairUsd(prs[n]) > PairUsd(prs[best]) THEN n ELSE best

\* the main pair of the two concentration scorers (sorted_pairs[0]) and of the
\* gate's liquidity rule (max), 0 without pairs
SortedMainPair(prs) == IF prs = <<>> THEN 0 ELSE sorted_pairs(prs)[1]
MaxMainPair(prs) == IF prs = <<>> THEN 0 ELSE MaxUpTo(prs, Len(prs))

\* liquidity figures (thousands of USD) that reach every bracket and tier
\* boundary, with a missing, a zero and a negative one
ConcentrationUsd ==
    {AbsentV} \cup {NumV(n) : n \in {0 - 400, 0, 100, 300, 500, 2000, 4000, 6000, 12000}}

\* k pairs of the same liquidity: the fragmented lists of the top bracket
EqualPairs(usd, k) == [i \in 1..k |-> Pair(NumV(usd), AbsentV)]

ConcentrationLists ==
    SeqsUpTo({Pair(u, AbsentV) : u \in ConcentrationUsd}, MaxPairs)
        \cup {EqualPairs(4000, 3), EqualPairs(2000, 6), EqualPairs(90, 10)}

NoAnalysis ==
    [kind |-> "none", pairs |-> <<>>, concentration |-> NoConcentration,
     concentration_score |-> 0, main_pair |-> 0, gate_main_pair |-> 0,
     chain |-> NoChain, lock |-> NoLock,
     wash_trading |-> NoWash, slippage |-> NoSlippage, rugpull |-> NoRugpull,
     trade_size_usd |-> 0, result |-> NoComposite]

InitLiquidity == analysis = NoAnalysis

\* a call of calculate_liquidity_concentration, and of
\* calculate_concentration_score on the same pairs
ConcentrationCall(prs) ==
    /\ analysis.kind = "none"
    /\ analysis' = [NoAnalysis EXCEPT
                       !.kind = "concentration",
                       !.pairs = prs,
                       !.concentration = calculate_liquidity_concentration(prs),
                       !.concentration_score = calculate_concentration_score(prs),
                       !.main_pair = SortedMainPair(prs),
                       !.gate_main_pair = MaxMainPair(prs)]

\* a call of verify_liquidity_lock
LockCall(chain) ==
    /\ analysis.kind = "none"
    /\ analysis' = [NoAnalysis EXCEPT
                       !.kind = "lock",
                       !.chain = chain,
                       !.lock = verify_liquidity_lock(chain)]

\* a call of calculate_wash_trading_score
WashCall(pair) ==
    /\ analysis.kind = "none"
    /\ analysis' = [NoAnalysis EXCEPT
                       !.kind = "wash_trading",
                       !.pairs = <<pair>>,
                       !.wash_trading = calculate_wash_trading_score(pair)]

\* a call of estimate_trade_slippage
SlippageCall(pair, trade_size_usd) ==
    /\ analysis.kind = "none"
    /\ analysis' = [NoAnalysis EXCEPT
                       !.kind = "slippage",
                       !.pairs = <<pair>>,
                       !.trade_size_usd = trade_size_usd,
                       !.slippage = estimate_trade_slippage(pair, trade_size_usd)]

\* a call of check_rugpull_patterns
RugpullCall(prs) ==
    /\ analysis.kind = "none"
    /\ analysis' = [NoAnalysis EXCEPT
                       !.kind = "rugpull",
                       !.pairs = prs,
                       !.rugpull = check_rugpull_patterns(prs)]

\* a call of comprehensive_liquidity_analysis
ComprehensiveCall(market, trade_size_usd) ==
    /\ analysis.kind = "none"
    /\ analysis' = [NoAnalysis EXCEPT
                       !.kind = "comprehensive",
                       !.pairs = market.pairs,
                       !.chain = market.chain,
                       !.trade_size_usd = trade_size_usd,
                       !.result = comprehensive_liquidity_analysis(market, trade_size_usd)]

AnalysisReturn ==
    /\ analysis.kind # "none"
    /\ analysis' = NoAnalysis

\* one call at a time: the next starts when the last has returned
NextLiquidity ==
    \/ analysis.kind = "none" /\ \E prs \in ConcentrationLists : ConcentrationCall(prs)
    \/ analysis.kind = "none" /\ \E chain \in ChainStates : LockCall(chain)
    \/ analysis.kind = "none" /\ \E pair \in WashPairs : WashCall(pair)
    \/ analysis.kind = "none" /\ \E pair \in SlippagePairs, trade \in TradeSizes :
           SlippageCall(pair, trade)
    \/ analysis.kind = "none" /\ \E prs \in RugpullLists : RugpullCall(prs)
    \/ analysis.kind = "none" /\ \E market \in Markets, trade \in TradeSizes :
           ComprehensiveCall(market, trade)
    \/ AnalysisReturn

(***************************************************************************)
(* Specifications                                                          *)
(***************************************************************************)
FilterIdle ==
    /\ pc = "idle"
    /\ raw = EmptyRaw
    /\ source = "none"
    /\ security_data = EmptyDict
    /\ pairs = <<>>
    /\ filter_result = NoResult

LoopIdle ==
    /\ token = DefaultToken
    /\ hour = 0
    /\ cached = EmptyDict
    /\ cycle = NoCycle

GraduationIdle ==
    /\ current_status = DefaultStatus
    /\ call = NoCall

LiquidityIdle == analysis = NoAnalysis

\* the hourly loop, under the default thresholds
Init ==
    /\ thresholds = DefaultThresholds
    /\ FilterIdle
    /\ InitLoop
    /\ GraduationIdle
    /\ LiquidityIdle
    /\ hist = NoHist

Next == NextLoop /\ UNCHANGED <<filterVars, gradVars, analysis>>

Spec == Init /\ [][Next]_vars

\* the gate and the parser, called with every profile and pair list
InitSpecFilter ==
    InitFilter /\ LoopIdle /\ GraduationIdle /\ LiquidityIdle /\ hist = NoHist

NextSpecFilter == NextFilter /\ UNCHANGED <<loopVars, gradVars, hist, analysis>>

SpecFilter == InitSpecFilter /\ [][NextSpecFilter]_vars

\* the graduation functions, called directly
InitSpecGraduation ==
    /\ thresholds = DefaultThresholds
    /\ FilterIdle
    /\ LoopIdle
    /\ LiquidityIdle
    /\ InitGraduation

NextSpecGraduation == NextGraduation /\ UNCHANGED <<filterVars, loopVars, analysis>>

SpecGraduation == InitSpecGraduation /\ [][NextSpecGraduation]_vars

\* the LiquidityAnalyzer methods, called directly
InitSpecLiquidity ==
    /\ thresholds = DefaultThresholds
    /\ FilterIdle
    /\ LoopIdle
    /\ GraduationIdle
    /\ hist = NoHist
    /\ InitLiquidity

NextSpecLiquidity ==
    NextLiquidity /\ UNCHANGED <<filterVars, loopVars, gradVars, hist>>

SpecLiquidity == InitSpecLiquidity /\ [][NextSpecLiquidity]_vars


(***************************************************************************)
(* Properties                                                              *)
(***************************************************************************)
CriticalKeys == {"is_honeypot", "buy_tax", "sell_tax"}

\* a safety-critical field of the profile is unknown: missing or None
CriticalUnknown(d) == \E k \in CriticalKeys : d[k] \in {AbsentV, NoneV}

\* C1: a gate call on a profile that is empty or has is_honeypot, buy_tax or
\* sell_tax unknown returns PENDING with the single reason
\* goplus_data_missing_or_invalid, whatever the other fields, the pairs and the
\* thresholds are
C1_PendingWhenCriticalUnknown ==
    (pc = "done" /\ (security_data = EmptyDict \/ CriticalUnknown(security_data)))
        => /\ filter_result.status = "PENDING"
           /\ filter_result.reasons = <<Reason("goplus_data_missing_or_invalid", 0)>>

\* C1 witness: only is_honeypot is missing, every other field would pass, and
\* the call returned PENDING
C1_Witness ==
    /\ pc = "done"
    /\ security_data = [is_honeypot |-> AbsentV, buy_tax |-> NumV(1000),
                        sell_tax |-> NumV(1000), lp_locked_percent |-> NumV(3000),
                        is_mintable |-> BoolV(FALSE)]
    /\ pairs = <<[liquidity |-> NumV(600)]>>
    /\ thresholds = DefaultThresholds
    /\ filter_result.status = "PENDING"

\* the seven rules, read off the profile: a missing or None field
\* violates nothing
RuleViolations(T, d, prs) ==
    {r \in {"honeypot_detected", "lp_locked_too_low", "concentration_too_low",
            "liquidity_too_low", "buy_tax_too_high", "sell_tax_too_high",
            "token_is_mintable"} :
        \/ r = "honeypot_detected" /\ ~T.allow_honeypot /\ d.is_honeypot = BoolV(TRUE)
        \/ r = "lp_locked_too_low" /\ d.lp_locked_percent.t = "num"
                                   /\ d.lp_locked_percent.v < T.min_lp_locked
        \/ r = "concentration_too_low"
               /\ calculate_concentration_score(prs) < T.min_concentration
        \/ r = "liquidity_too_low" /\ GateLiquidity(prs) < T.min_liquidity_usd
        \/ r = "buy_tax_too_high" /\ d.buy_tax.v > T.max_buy_tax
        \/ r = "sell_tax_too_high" /\ d.sell_tax.v > T.max_sell_tax
        \/ r = "token_is_mintable" /\ ~T.allow_mintable /\ d.is_mintable = BoolV(TRUE)}

ReasonRules(reasons) == {reasons[i].rule : i \in 1..Len(reasons)}

\* C2: with is_honeypot, buy_tax and sell_tax known, a gate call returns one
\* reason per violated rule and no other, and PASS iff there is none, FAIL
\* otherwise
C2_OneReasonPerViolatedRule ==
    (pc = "done" /\ security_data # EmptyDict /\ ~CriticalUnknown(security_data))
        => /\ filter_result.status \in {"PASS", "FAIL"}
           /\ ReasonRules(filter_result.reasons)
                  = RuleViolations(thresholds, security_data, pairs)
           /\ Len(filter_result.reasons)
                  = Cardinality(RuleViolations(thresholds, security_data, pairs))
           /\ (filter_result.status = "PASS") <=> (filter_result.reasons = <<>>)

\* C3: from the default state, each result fed back, PASS number 1 to 4 of a
\* streak without FAIL returns not graduated and PROGRESS, PASS number 5
\* returns graduated and GRADUATED, every later PASS returns graduated and an
\* action other than GRADUATED
C3_GraduatesOnFifthPass ==
    (call.kind = "update" /\ call.filter_status = "PASS" /\ hist.from_default)
        => /\ hist.streak \in 1..4
                => (~call.out.graduated /\ call.out.action = "PROGRESS")
           /\ hist.streak = 5
                => (call.out.graduated /\ call.out.action = "GRADUATED")
           /\ hist.streak > 5
                => (call.out.graduated /\ call.out.action # "GRADUATED")

\* C3 witness: the sixth PASS of a streak from the default state, after the
\* token graduated
C3_Witness ==
    /\ call.kind = "update"
    /\ call.filter_status = "PASS"
    /\ hist.from_default
    /\ hist.streak = 6
    /\ call.graduated
    /\ call.out.graduated
    /\ call.out.action = "NO_CHANGE"

\* C4: a FAIL returns not graduated and 0 passes; the action is DEMOTED iff
\* the token was graduated, PROGRESS iff it was not and had a streak > 0,
\* NO_CHANGE iff it was not and had a streak of 0
C4_FailResets ==
    (call.kind = "update" /\ call.filter_status = "FAIL")
        => /\ ~call.out.graduated
           /\ call.out.consecutive_passes = 0
           /\ (call.out.action = "DEMOTED") <=> call.graduated
           /\ (call.out.action = "PROGRESS")
                  <=> (~call.graduated /\ call.consecutive_passes > 0)
           /\ (call.out.action = "NO_CHANGE")
                  <=> (~call.graduated /\ call.consecutive_passes = 0)

\* C4 witness: a FAIL on a graduated token demoted it
C4_Witness ==
    /\ call.kind = "update"
    /\ call.filter_status = "FAIL"
    /\ call.graduated
    /\ call.consecutive_passes >= 5
    /\ call.out = GradResult(FALSE, 0, "DEMOTED")

\* C5: a status other than PASS and FAIL returns graduated and
\* consecutive_passes as given, with NO_CHANGE, and the record fed to the
\* next call is the one this call was given
C5_OtherStatusNoChange ==
    (call.kind = "update" /\ call.filter_status \notin {"PASS", "FAIL"})
        => /\ call.out = GradResult(call.graduated, call.consecutive_passes, "NO_CHANGE")
           /\ current_status = [graduated |-> call.graduated,
                                consecutive_passes |-> call.consecutive_passes]

\* C5 witness: a PENDING in the middle of a streak of 3 left it at 3
C5_Witness ==
    /\ call.kind = "update"
    /\ call.filter_status = "PENDING"
    /\ hist.from_default
    /\ hist.streak = 3
    /\ ~call.graduated
    /\ call.out.consecutive_passes = 3

\* C6: should_fetch_goplus is true iff the token is not graduated, or has no
\* last check, or the last check is 24 hours old or more, or it is hour 3 and
\* the last check is 1 hour old or more
C6_FetchDecision ==
    call.kind = "should_fetch"
        => (call.fetch
              <=> \/ ~call.graduated
                  \/ call.last_goplus_check = NoneV
                  \/ call.last_goplus_check.v >= 24
                  \/ (call.current_hour = 3 /\ call.last_goplus_check.v >= 1))

\* C6 witness: a graduated token checked 24 hours ago, outside the refresh
\* hour, is fetched
C6_Witness ==
    /\ call.kind = "should_fetch"
    /\ call.graduated
    /\ call.last_goplus_check = NumV(24)
    /\ call.current_hour = 4
    /\ call.fetch

\* C7: two cycles at which a fetch is decided while the token is graduated,
\* the token having stayed graduated between them, are 24 hours apart or more
C7_GraduatedFetchesADayApart ==
    (cycle.fetched /\ cycle.was_graduated /\ cycle.gap # NoneV)
        => cycle.gap.v >= 24

\* C8: a gate call on a profile with is_honeypot, buy_tax and sell_tax known
\* returns PASS, FAIL or PENDING, also when lp_locked_percent or is_mintable
\* is missing or None
C8_GateNeverRaises ==
    (pc = "done" /\ ~CriticalUnknown(security_data))
        => filter_result.status \in {"PASS", "FAIL", "PENDING"}

\* C9: a missing field is never defaulted: the gate computes no PASS or FAIL
\* from a profile without is_mintable or lp_locked_percent, and the parser
\* hands the gate no is_honeypot, buy_tax or sell_tax the response did not hold
C9_AbsentNeverDefaulted ==
    /\ (pc = "done" /\ source = "stored"
          /\ (security_data.is_mintable = AbsentV
                \/ security_data.lp_locked_percent = AbsentV))
        => filter_result.status \notin {"PASS", "FAIL"}
    /\ (pc = "fetched" /\ source = "goplus" /\ raw # EmptyRaw)
        => /\ raw.is_honeypot = AbsentV => Get(security_data, "is_honeypot") = NoneV
           /\ raw.buy_tax = AbsentV => Get(security_data, "buy_tax") = NoneV
           /\ raw.sell_tax = AbsentV => Get(security_data, "sell_tax") = NoneV


\* C11: for every pair list, also with zero, negative or missing liquidity,
\* calculate_liquidity_concentration and calculate_concentration_score return
\* a score in [0,100] and a ratio in [0,1]
C11_ScoreAndRatioInRange ==
    analysis.kind = "concentration"
        => /\ analysis.concentration.concentration_score \in 0..10000
           /\ analysis.concentration.concentration_ratio \in 0..10000
           /\ analysis.concentration_score \in 0..10000

NonNegativeLiquidity(prs) == \A i \in 1..Len(prs) : PairUsd(prs[i]) >= 0

\* the largest liquidity of the list over its sum is p / q or more
LargestShareGe(prs, p, q) ==
    /\ SumUsd(prs) > 0
    /\ \E i \in 1..Len(prs) : q * PairUsd(prs[i]) >= p * SumUsd(prs)

LargestUsd(prs) ==
    IF prs = <<>> THEN 0
    ELSE CHOOSE m \in {PairUsd(prs[i]) : i \in 1..Len(prs)} :
             \A i \in 1..Len(prs) : PairUsd(prs[i]) <= m

\* C12: with non-negative liquidity the flag and the score range follow the
\* bracket of the total: above $10M HEALTHY iff ratio >= 0.3 and main pair
\* above $5M (80-100), else CAUTION iff ratio >= 0.2 (50-80), else RED_FLAG
\* (0-50); from $500K to $10M HEALTHY iff ratio >= 0.75 (85-100), CAUTION iff
\* 0.6 <= ratio < 0.75 (60-85), else RED_FLAG (0-60); below $500K CAUTION iff
\* ratio >= 0.9 (40-60), else RED_FLAG (0-40), never HEALTHY
C12_TiersByTotalLiquidity ==
    (analysis.kind = "concentration" /\ NonNegativeLiquidity(analysis.pairs))
        => LET prs == analysis.pairs
               total == SumUsd(prs)
               flag == analysis.concentration.flag
               score == analysis.concentration.concentration_score
               Tier(f, cond, lo, hi) ==
                   /\ (flag = f) <=> cond
                   /\ (flag = f) => score \in (100 * lo)..(100 * hi)
           IN  /\ flag \in {"HEALTHY", "CAUTION", "RED_FLAG"}
               /\ total > 10000 =>
                    LET healthy == LargestShareGe(prs, 3, 10) /\ LargestUsd(prs) > 5000
                        caution == ~healthy /\ LargestShareGe(prs, 2, 10)
                    IN  /\ Tier("HEALTHY", healthy, 80, 100)
                        /\ Tier("CAUTION", caution, 50, 80)
                        /\ Tier("RED_FLAG", ~healthy /\ ~caution, 0, 50)
               /\ (total >= 500 /\ total <= 10000) =>
                    LET healthy == LargestShareGe(prs, 75, 100)
                        caution == ~healthy /\ LargestShareGe(prs, 6, 10)
                    IN  /\ Tier("HEALTHY", healthy, 85, 100)
                        /\ Tier("CAUTION", caution, 60, 85)
                        /\ Tier("RED_FLAG", ~healthy /\ ~caution, 0, 60)
               /\ total < 500 =>
                    LET caution == LargestShareGe(prs, 9, 10)
                    IN  /\ flag # "HEALTHY"
                        /\ Tier("CAUTION", caution, 40, 60)
                        /\ Tier("RED_FLAG", ~caution, 0, 40)

\* C12 witness: three pairs of $4M, a total above $10M with a third of it in
\* a main pair below $5M, are CAUTION
C12_Witness ==
    /\ analysis.kind = "concentration"
    /\ analysis.pairs = EqualPairs(4000, 3)
    /\ analysis.concentration.flag = "CAUTION"
    /\ analysis.concentration.concentration_score = 6000

\* C13: an empty pair list, and a pair list whose liquidity sums to 0, give
\* ratio 0, score 0 and RED_FLAG
C13_ZeroTotalIsRedFlag ==
    (analysis.kind = "concentration"
        /\ (analysis.pairs = <<>> \/ SumUsd(analysis.pairs) = 0))
        => /\ analysis.concentration.concentration_ratio = 0
           /\ analysis.concentration.concentration_score = 0
           /\ analysis.concentration.flag = "RED_FLAG"

\* C13 witness: two pairs, one of liquidity 0 and one without liquidity
C13_Witness ==
    /\ analysis.kind = "concentration"
    /\ analysis.pairs = <<Pair(NumV(0), AbsentV), Pair(AbsentV, AbsentV)>>
    /\ analysis.concentration.pair_count = 2
    /\ analysis.concentration.flag = "RED_FLAG"


\* C14: verify_liquidity_lock returns locked_percentage in [0,100] for every
\* total supply and every balances at the locker and burn addresses, also
\* when they sum to more than the supply, and 0 when the supply is 0
C14_LockedPercentageInRange ==
    analysis.kind = "lock"
        => /\ analysis.lock.locked_percentage \in 0..10000
           /\ analysis.chain.total_supply = NumV(0)
                  => analysis.lock.locked_percentage = 0

\* C15: in every result of verify_liquidity_lock, the early and error returns
\* included, the flag is LOCKED iff locked_percentage >= 80, PARTIAL iff it is
\* in [30,80), UNLOCKED iff it is below 30, and is_locked iff not UNLOCKED
C15_LockFlagMatchesPercentage ==
    analysis.kind = "lock"
        => LET r == analysis.lock
           IN  /\ (r.flag = "LOCKED") <=> (r.locked_percentage >= 8000)
               /\ (r.flag = "PARTIAL")
                      <=> (r.locked_percentage >= 3000 /\ r.locked_percentage < 8000)
               /\ (r.flag = "UNLOCKED") <=> (r.locked_percentage < 3000)
               /\ r.is_locked <=> (r.flag # "UNLOCKED")

\* C15 witness: 6 of 20 LP tokens at the lockers, exactly 30%, is PARTIAL
C15_Witness ==
    /\ analysis.kind = "lock"
    /\ analysis.chain.code = "contract"
    /\ analysis.chain.total_supply = NumV(20)
    /\ analysis.lock.locked_percentage = 3000
    /\ analysis.lock.flag = "PARTIAL"
    /\ analysis.lock.is_locked

\* the balances with every failed query counted as 0
FailuresAsZero(balances) ==
    [i \in 1..Len(balances) |-> IF balances[i] = FailV THEN NumV(0) ELSE balances[i]]

\* C16: when totalSupply() raises, verify_liquidity_lock returns not locked,
\* 0%, UNLOCKED and locker UNABLE_TO_VERIFY; a balanceOf() that raises counts
\* as 0 and the other addresses are still summed
C16_QueryFailuresHandled ==
    (analysis.kind = "lock" /\ analysis.chain.code = "contract")
        => /\ analysis.chain.total_supply = FailV
                  => analysis.lock = UnlockedResult("UNABLE_TO_VERIFY")
           /\ (analysis.chain.total_supply.t = "num" /\ analysis.chain.total_supply.v > 0)
                  => analysis.lock =
                         verify_liquidity_lock(
                             [analysis.chain EXCEPT !.balances = FailuresAsZero(@)])

\* C16 witness: balanceOf raises at the first locker and the 8 of 10 LP
\* tokens held at the second are counted
C16_Witness ==
    /\ analysis.kind = "lock"
    /\ analysis.chain.code = "contract"
    /\ analysis.chain.total_supply = NumV(10)
    /\ analysis.chain.balances[1] = FailV
    /\ analysis.chain.balances[2] = NumV(8)
    /\ analysis.lock.locked_percentage >= 8000
    /\ analysis.lock.locker_name = "PinkLock"


\* volume / liquidity < p / q, for liquidity # 0
WashRatioLt(pair, p, q) ==
    IF PairUsd(pair) > 0 THEN q * PairVolume(pair) < p * PairUsd(pair)
    ELSE q * PairVolume(pair) > p * PairUsd(pair)

\* volume / liquidity > p / q, for liquidity # 0
WashRatioGt(pair, p, q) ==
    IF PairUsd(pair) > 0 THEN q * PairVolume(pair) > p * PairUsd(pair)
    ELSE q * PairVolume(pair) < p * PairUsd(pair)

\* C20: calculate_wash_trading_score puts ratio = volume_24h / liquidity in
\* one band: LOW_ACTIVITY iff ratio < 0.5, HEALTHY iff 0.5 <= ratio <= 3.0,
\* SUSPICIOUS iff 3.0 < ratio <= 5.0, WASH_TRADING iff ratio > 5.0;
\* likely_wash_trading iff WASH_TRADING; liquidity 0 gives RED_FLAG, ratio 0,
\* likely_wash_trading false
C20_WashTradingBands ==
    analysis.kind = "wash_trading"
        => LET pair == analysis.pairs[1]
               r == analysis.wash_trading
           IN  /\ r.likely_wash_trading <=> (r.flag = "WASH_TRADING")
               /\ PairUsd(pair) = 0
                      => (r.flag = "RED_FLAG" /\ r.volume_liquidity_ratio = 0
                              /\ ~r.likely_wash_trading)
               /\ PairUsd(pair) # 0
                      => /\ (r.flag = "LOW_ACTIVITY") <=> WashRatioLt(pair, 1, 2)
                         /\ (r.flag = "HEALTHY")
                                <=> (~WashRatioLt(pair, 1, 2) /\ ~WashRatioGt(pair, 3, 1))
                         /\ (r.flag = "SUSPICIOUS")
                                <=> (WashRatioGt(pair, 3, 1) /\ ~WashRatioGt(pair, 5, 1))
                         /\ (r.flag = "WASH_TRADING") <=> WashRatioGt(pair, 5, 1)

\* C20 witness: volume of exactly 5 times the liquidity is SUSPICIOUS, not
\* yet wash trading
C20_Witness ==
    /\ analysis.kind = "wash_trading"
    /\ analysis.pairs = <<Pair(NumV(200), NumV(1000))>>
    /\ analysis.wash_trading.flag = "SUSPICIOUS"
    /\ analysis.wash_trading.volume_liquidity_ratio = 500
    /\ ~analysis.wash_trading.likely_wash_trading


\* points of a flag in a table of <<flag, points>>, 0 when the flag is not in it
Points(flag, table) ==
    IF \E i \in 1..Len(table) : table[i][1] = flag
    THEN (CHOOSE row \in {table[i] : i \in 1..Len(table)} : row[1] = flag)[2]
    ELSE 0

\* C17: for a non-empty pair list comprehensive_liquidity_analysis returns
\* the analysis whose total_score is, clamped to [0,100], lock
\* points (LOCKED 30, PARTIAL 15, UNLOCKED 10 above $50M of total liquidity,
\* else 0) + concentration points (HEALTHY 20, CAUTION 10) + LP-holder points
\* (HEALTHY 15, CAUTION 7) + wash-trading points (HEALTHY 15, LOW_ACTIVITY 10,
\* SUSPICIOUS 7) + 5 + slippage points (LOW 10, MEDIUM 5) - risk_score // 2
C17_CompositeScoreIsWeightedSum ==
    (analysis.kind = "comprehensive" /\ analysis.pairs # <<>>)
        => LET r == analysis.result
               sum == Points(r.lock.flag, <<<<"LOCKED", 30>>, <<"PARTIAL", 15>>,
                                 <<"UNLOCKED", IF r.concentration.total_liquidity > 50000
                                               THEN 10 ELSE 0>>>>)
                      + Points(r.concentration.flag, <<<<"HEALTHY", 20>>, <<"CAUTION", 10>>>>)
                      + Points(r.lp_holders.flag, <<<<"HEALTHY", 15>>, <<"CAUTION", 7>>>>)
                      + Points(r.wash_trading.flag,
                               <<<<"HEALTHY", 15>>, <<"LOW_ACTIVITY", 10>>, <<"SUSPICIOUS", 7>>>>)
                      + 5
                      + Points(r.slippage.flag, <<<<"LOW", 10>>, <<"MEDIUM", 5>>>>)
                      - (r.rugpull.risk_score \div 2)
           IN  /\ r.status = "returned"
               /\ r.lock = verify_liquidity_lock(analysis.chain)
               /\ r.concentration = calculate_liquidity_concentration(analysis.pairs)
               /\ r.total_score = (IF sum < 0 THEN 0 ELSE IF sum > 100 THEN 100 ELSE sum)

C19_NoPairsShortCircuit ==
    (analysis.kind = "comprehensive" /\ analysis.pairs = <<>>)
        => analysis.result
               = LiquidityAnalysis("returned", 0, "REJECT", <<"No trading pairs found">>)


\* the slippage estimate trade_size_usd / liquidity * 100 compared with p%
SlippageLt(pair, trade_size_usd, p) ==
    IF PairUsd(pair) > 0 THEN trade_size_usd < 10 * p * PairUsd(pair)
    ELSE trade_size_usd > 10 * p * PairUsd(pair)

\* C21: estimate_trade_slippage returns trade_size_usd / liquidity * 100 (to
\* the hundredth of a percent) with flag LOW iff the estimate is below 1,
\* MEDIUM iff it is in [1,5), HIGH iff it is 5 or more; a pair whose
\* liquidity is 0 or missing gives exactly 100% and HIGH
C21_SlippageBands ==
    analysis.kind = "slippage"
        => LET pair == analysis.pairs[1]
               trade == analysis.trade_size_usd
               r == analysis.slippage
               usd == IF pair.liquidity = AbsentV THEN 0 ELSE pair.liquidity.v
           IN  IF usd = 0
               THEN r.estimated_slippage_percent = 10000 /\ r.flag = "HIGH"
               ELSE /\ r.flag \in {"LOW", "MEDIUM", "HIGH"}
                    /\ (r.flag = "LOW") <=> SlippageLt(pair, trade, 1)
                    /\ (r.flag = "MEDIUM")
                           <=> (~SlippageLt(pair, trade, 1) /\ SlippageLt(pair, trade, 5))
                    /\ (r.flag = "HIGH") <=> ~SlippageLt(pair, trade, 5)
                    \* within half a hundredth of 100 * trade / (1000 * usd) percent
                    /\ LET d == 2 * (r.estimated_slippage_percent * usd - 10 * trade)
                       IN  IF usd > 0 THEN d <= usd /\ 0 - d <= usd
                           ELSE d <= 0 - usd /\ 0 - d <= 0 - usd

\* a $50 trade against $5,000 of liquidity: exactly 1%, which is MEDIUM
C21_Witness ==
    /\ analysis.kind = "slippage"
    /\ analysis.pairs[1].liquidity = NumV(5)
    /\ analysis.trade_size_usd = 50
    /\ analysis.slippage.estimated_slippage_percent = 100
    /\ analysis.slippage.flag = "MEDIUM"


\* C22: check_rugpull_patterns adds exactly one liquidity penalty: 30 with
\* 'Very low liquidity (<$10k)' iff the main pair's liquidity is below
\* $10,000, 15 with 'Low liquidity (<$50k)' iff it is in [$10,000, $50,000),
\* nothing otherwise or without pairs; the flag is LOW_RISK iff risk_score
\* < 30, MEDIUM_RISK iff it is in [30,60), HIGH_RISK iff it is >= 60
C22_RugpullLiquidityPenalty ==
    analysis.kind = "rugpull"
        => LET prs == analysis.pairs
               r == analysis.rugpull
               \* the largest liquidity of the list, a missing one counting 0
               main == LargestUsd(prs)
           IN  /\ IF prs = <<>> THEN r.risk_score = 0 /\ r.patterns_detected = <<>>
                  ELSE IF main < 10
                  THEN /\ r.risk_score = 30
                       /\ r.patterns_detected = <<"Very low liquidity (<$10k)">>
                  ELSE IF main < 50
                  THEN /\ r.risk_score = 15
                       /\ r.patterns_detected = <<"Low liquidity (<$50k)">>
                  ELSE r.risk_score = 0 /\ r.patterns_detected = <<>>
               /\ (r.flag = "LOW_RISK") <=> (r.risk_score < 30)
               /\ (r.flag = "MEDIUM_RISK") <=> (r.risk_score >= 30 /\ r.risk_score < 60)
               /\ (r.flag = "HIGH_RISK") <=> (r.risk_score >= 60)

\* two pairs, the larger one at $9,000: the higher penalty alone
C22_Witness ==
    /\ analysis.kind = "rugpull"
    /\ Len(analysis.pairs) = 2
    /\ analysis.pairs[2].liquidity = NumV(9)
    /\ analysis.rugpull.risk_score = 30
    /\ analysis.rugpull.flag = "MEDIUM_RISK"
    /\ Len(analysis.rugpull.patterns_detected) = 1

\* C29: check_rugpull_patterns returns risk_score 0, 15 or 30 only, so its
\* flag is never HIGH_RISK and floor(risk_score / 2), which the composite
\* score subtracts, is at most 15
C29_RiskScoreAtMostThirty ==
    /\ analysis.kind = "rugpull"
           => /\ analysis.rugpull.risk_score \in {0, 15, 30}
              /\ analysis.rugpull.flag \in {"LOW_RISK", "MEDIUM_RISK"}
              /\ analysis.rugpull.risk_score \div 2 <= 15
    /\ (analysis.kind = "comprehensive" /\ analysis.result.status = "returned")
           => analysis.result.rugpull.risk_score \div 2 <= 15

\* the main pair at $49,000: the lower penalty, 7 points off the composite
C29_Witness ==
    /\ analysis.kind = "rugpull"
    /\ analysis.pairs # <<>>
    /\ analysis.rugpull.risk_score = 15
    /\ analysis.rugpull.risk_score \div 2 = 7
    /\ analysis.rugpull.flag = "LOW_RISK"


\* C23: on PASS update_graduation_status returns consecutive_passes + 1, also
\* for a graduated token; the action is GRADUATED (graduated true) iff the
\* token was not graduated and the new count is >= 5, PROGRESS (graduated
\* false) iff it was not graduated and the new count is < 5, NO_CHANGE
\* (graduated true) iff it was graduated already
C23_PassIncrementsAndClassifies ==
    (call.kind = "update" /\ call.filter_status = "PASS")
        => LET new == call.consecutive_passes + 1
           IN  /\ call.out.consecutive_passes = new
               /\ call.out.action \in {"GRADUATED", "PROGRESS", "NO_CHANGE"}
               /\ (call.out.action = "GRADUATED")
                      <=> (~call.graduated /\ new >= PASSES_TO_GRADUATE)
               /\ (call.out.action = "PROGRESS")
                      <=> (~call.graduated /\ new < PASSES_TO_GRADUATE)
               /\ (call.out.action = "NO_CHANGE") <=> call.graduated
               /\ call.out.graduated <=> (call.out.action # "PROGRESS")

\* a graduated token passes once more: 5 becomes 6, nothing else changes
C23_Witness ==
    /\ call.kind = "update"
    /\ call.filter_status = "PASS"
    /\ call.graduated
    /\ call.consecutive_passes = 5
    /\ call.out = GradResult(TRUE, 6, "NO_CHANGE")

\* C26: in every graduation record that descends from the default record by
\* calls of update_graduation_status alone (statuses PASS, FAIL, PENDING or
\* any other), consecutive_passes >= 0 and graduated holds iff
\* consecutive_passes >= 5
C26_GraduatedIffFivePasses ==
    hist.from_default
        => /\ current_status.consecutive_passes >= 0
           /\ current_status.graduated
                  <=> (current_status.consecutive_passes >= PASSES_TO_GRADUATE)

\* a token demoted by a FAIL after it had graduated
C26_Witness ==
    /\ hist.from_default
    /\ hist.graduations = 0
    /\ call.kind = "update"
    /\ call.out.action = "DEMOTED"
    /\ current_status = DefaultStatus

\* C27: for a record that descends from the default record, consecutive_passes
\* is the number of PASS statuses since the last FAIL (or since creation),
\* the other statuses not counting; a GRADUATED action comes with exactly 5
\* of them, and never twice without a DEMOTED action in between
C27_StreakSinceLastFail ==
    /\ hist.from_default
           => /\ current_status.consecutive_passes = hist.streak
              /\ (call.kind = "update" /\ call.out.action = "GRADUATED")
                     => hist.streak = PASSES_TO_GRADUATE
    /\ hist.graduations <= 1

\* the token graduates a second time, after a demotion and 5 more passes
C27_Witness ==
    /\ hist.from_default
    /\ call.kind = "update"
    /\ call.out.action = "GRADUATED"
    /\ call.filter_status = "PASS"
    /\ hist.streak = 5
    /\ hist.graduations = 1
    /\ cycle.kind = "none"
    /\ current_status = [graduated |-> TRUE, consecutive_passes |-> 5]


\* C24: calculate_concentration_score and calculate_liquidity_concentration
\* agree on every pair list: the score of the first is the
\* concentration_score of the second, and the main pair both take
\* (sorted_pairs[0]) is the first pair of largest liquidity, the one max()
\* takes for the gate's liquidity rule
C24_ScorersAgree ==
    analysis.kind = "concentration"
        => LET prs == analysis.pairs
               m == analysis.main_pair
           IN  /\ analysis.concentration_score = analysis.concentration.concentration_score
               /\ m = analysis.gate_main_pair
               /\ prs # <<>>
                      => /\ m \in 1..Len(prs)
                         /\ \A i \in 1..Len(prs) :
                                \/ PairUsd(prs[i]) < PairUsd(prs[m])
                                \/ PairUsd(prs[i]) = PairUsd(prs[m]) /\ i >= m
                         /\ analysis.concentration.main_pair_liquidity = PairUsd(prs[m])

\* two pairs, the larger one second: both scorers take it for the main pair
C24_Witness ==
    /\ analysis.kind = "concentration"
    /\ Len(analysis.pairs) = 2
    /\ analysis.pairs[1].liquidity = NumV(100)
    /\ analysis.pairs[2].liquidity = NumV(500)
    /\ analysis.main_pair = 2
    /\ analysis.gate_main_pair = 2
    /\ analysis.concentration_score = 9750
    /\ analysis.concentration.concentration_score = 9750

\* C25: in every result of calculate_liquidity_concentration the flag and
\* the score agree with the documented bands: HEALTHY with a score in
\* [80,100], CAUTION with one in [50,80), RED_FLAG with one in [0,50)
C25_FlagMatchesScoreBand ==
    analysis.kind = "concentration"
        => LET r == analysis.concentration
           IN  /\ r.flag \in {"HEALTHY", "CAUTION", "RED_FLAG"}
               /\ r.flag = "HEALTHY"
                      => (r.concentration_score >= 8000 /\ r.concentration_score <= 10000)
               /\ r.flag = "CAUTION"
                      => (r.concentration_score >= 5000 /\ r.concentration_score < 8000)
               /\ r.flag = "RED_FLAG"
                      => (r.concentration_score >= 0 /\ r.concentration_score < 5000)


Loosen(T, S) ==
    [allow_honeypot |-> T.allow_honeypot \/ 1 \in S,
     min_lp_locked |-> T.min_lp_locked - (IF 2 \in S THEN 1 ELSE 0),
     min_concentration |-> T.min_concentration - (IF 3 \in S THEN 5000 ELSE 0),
     min_liquidity_usd |-> T.min_liquidity_usd - (IF 4 \in S THEN 1 ELSE 0),
     max_buy_tax |-> T.max_buy_tax + (IF 5 \in S THEN 1 ELSE 0),
     max_sell_tax |-> T.max_sell_tax + (IF 6 \in S THEN 501 ELSE 0),
     allow_mintable |-> T.allow_mintable \/ 7 \in S]

\* one threshold loosened, two neighbouring ones, or all seven
Loosened(T) ==
    {Loosen(T, {k}) : k \in 1..7} \cup {Loosen(T, {k, k + 1}) : k \in 1..6}
        \cup {Loosen(T, 1..7)}

\* every reason of the list a is in the list b
ReasonsWithin(a, b) == \A i \in 1..Len(a) : \E j \in 1..Len(b) : a[i] = b[j]

\* the result under looser thresholds against the result under the given ones
NoStricter(looser, given) ==
    /\ given.status = "PASS" => looser.status = "PASS"
    /\ ReasonsWithin(looser.reasons, given.reasons)
    /\ (looser.status = "PENDING") <=> (given.status = "PENDING")

\* C30: apply_critical_filters is monotone in the thresholds: on the same
\* profile and pairs, looser thresholds never turn PASS into FAIL and add no
\* reason, and no thresholds change whether the result is PENDING
C30_MonotoneInThresholds ==
    pc = "done"
        => /\ \A T \in Loosened(thresholds) :
                  NoStricter(apply_critical_filters(T, security_data, pairs), filter_result)
           /\ \A T \in ThresholdConfigs :
                  (apply_critical_filters(T, security_data, pairs).status = "PENDING")
                      <=> (filter_result.status = "PENDING")

\* a honeypot with 29.99% of the LP locked fails on two rules, still fails
\* with the LP threshold loosened alone and passes with both loosened
C30_Witness ==
    /\ pc = "done"
    /\ thresholds = DefaultThresholds
    /\ filter_result.status = "FAIL"
    /\ Len(filter_result.reasons) = 2
    /\ apply_critical_filters(Loosen(thresholds, {2}), security_data, pairs).status = "FAIL"
    /\ apply_critical_filters(Loosen(thresholds, {1, 2}), security_data, pairs).status
           = "PASS"


====
